---- MODULE Spec2Model ----
(***************************************************************************)
(* A model of lapce-data/src/editor.rs: the editor's command handlers      *)
(* (LapceEditorBufferData) with the completion and hover sessions, the     *)
(* requests they send to the proxy and the responses that come back, the   *)
(* revision-tagged background requests, the save thread and the jump       *)
(* history.                                                                *)
(*                                                                         *)
(* Offsets are 0-based as in the source: offset o lies between text[o] and *)
(* text[o+1] of the 1-based TLA+ sequence.  A protocol position of the     *)
(* single-line buffers modelled here is (line 0, character o) and is       *)
(* written o.                                                              *)
(***************************************************************************)
EXTENDS Integers, Sequences, FiniteSets, Bags, TLC

(* ------------------------------ bounds ------------------------------- *)

\* edits committed to the documents, all together
MaxEdits == 2
\* session resets of one session (its request id stops here)
MaxRequestId == 2
\* requests outstanding at the proxy
MaxInflight == 2
\* saves of one run, each with a background thread of its own
MaxSaves == 1
\* entries of an editor's jump history
MaxLocations == 3

(* ----------------------------- universe ------------------------------ *)

Paths == {"a.rs", "b.rs"}
Views == {1, 2}
\* "a" is a word character, "." a completion trigger character
Chars == {"a", "."}
NoPosition == -1

VARIABLES
    docs,        \* main_split.open_docs: path -> Document
    editors,     \* main_split.editors: view id -> LapceEditorData
    active,      \* the view whose LapceEditorBufferData handles the command
    completion,  \* CompletionData (one per window tab)
    hover,       \* HoverData (one per window tab)
    inflight,    \* bag of the requests the proxy has not answered
    threads,     \* the background threads save has spawned
    history,     \* ghost: resets and cancellations of each session so far
    last,        \* ghost: the handler that ran last, what it met and what it did
    call         \* a call of one of the file's free functions: arguments, result

vars ==
    <<docs, editors, active, completion, hover, inflight, threads, history, last,
      call>>

\* no free function is being called
NoCall == [pc |-> "none"]

(* --------------------------- buffer facade --------------------------- *)

Min(a, b) == IF a < b THEN a ELSE b
Max(a, b) == IF a > b THEN a ELSE b

\* Document::id()
BufferId(path) == IF path = "a.rs" THEN 1 ELSE 2

\* BufferContent::is_file()
is_file(content) == content \in Paths

\* WordProperty::Other of lapce-core: the characters of an identifier
is_word_char(c) == c \in {"a", "b", "f", "o"}

\* Buffer::slice_to_cow(start..end)
slice_to_cow(text, start, end) == SubSeq(text, start + 1, end)

RECURSIVE prev_code_boundary(_, _)
\* Buffer::prev_code_boundary: the start of the identifier that ends at offset
prev_code_boundary(text, offset) ==
    IF offset > 0 /\ is_word_char(text[offset])
    THEN prev_code_boundary(text, offset - 1)
    ELSE offset

RECURSIVE next_code_boundary(_, _)
\* Buffer::next_code_boundary: the end of the identifier that starts at offset
next_code_boundary(text, offset) ==
    IF offset < Len(text) /\ is_word_char(text[offset + 1])
    THEN next_code_boundary(text, offset + 1)
    ELSE offset

\* Buffer::offset_to_position: none for the offsets the buffer cannot convert
offset_to_position(unconvertible, offset) ==
    IF offset \in unconvertible THEN NoPosition ELSE offset

\* a delta that replaces [start, end) by len inserted characters; more holds
\* the rest of the delta when it replaces further to the right as well
Delta(start, end, len) ==
    [start |-> start, end |-> end, len |-> len, more |-> <<>>]

RECURSIVE transform(_, _, _)
\* xi_rope Transformer::transform over the elements Copy(0, start), Insert(len),
\* Copy(end, ..) of each replacement of the delta
transform(delta, ix, after) ==
    LET jx == IF delta.more = <<>> THEN ix
              ELSE transform(delta.more[1], ix, after)
    IN  IF ix < delta.start THEN ix
        ELSE IF ix = delta.start /\ ~after THEN ix
        ELSE IF ix <= delta.end THEN delta.start + delta.len
        ELSE delta.start + delta.len + (jx - delta.end)

\* Cursor::apply_delta: both ends of the region drift after an insertion
cursor_apply_delta(cursor, delta) ==
    [cursor EXCEPT !.start = transform(delta, cursor.start, TRUE),
                   !.end = transform(delta, cursor.end, TRUE)]

\* Cursor::offset()
cursor_offset(cursor) == cursor.end

(* ------------------------- completion session ------------------------ *)

\* CompletionData::new
NewCompletion ==
    [status |-> "Inactive", offset |-> 0, buffer_id |-> 0, input |-> <<>>,
     input_items |-> <<>>, request_id |-> 0]

\* CompletionData::cancel
cancel(session) == [session EXCEPT !.status = "Inactive"]

\* CompletionData::update_input
update_input(c, input) == [c EXCEPT !.input = input]

\* im::HashMap::insert
insert(map, key, value) ==
    [k \in DOMAIN map \cup {key} |-> IF k = key THEN value ELSE map[k]]

\* CompletionData::receive: a response that is stale or finds the session
\* inactive is discarded, any other is cached under its input
receive(c, request_id, input, resp) ==
    IF c.status = "Inactive" \/ c.request_id # request_id
    THEN c
    ELSE [c EXCEPT !.input_items = insert(c.input_items, input, resp),
                   !.status = "Active"]

\* the arguments of CompletionData::request, as the proxy gets them
request(request_id, buffer_id, input, position) ==
    [kind |-> "completion", request_id |-> request_id, buffer_id |-> buffer_id,
     input |-> input, position |-> position]

\* reuse_session had it not compared the buffers
reuse_session_any_buffer(c, start_offset, buffer_id) ==
    /\ c.status # "Inactive"
    /\ c.offset = start_offset

\* update_completion: the session is kept when it is live at this anchor
reuse_session(c, start_offset, buffer_id) ==
    /\ c.status # "Inactive"
    /\ c.offset = start_offset
    /\ c.buffer_id = buffer_id

\* reuse_requests had it not looked into the cache
reuse_requests_uncached(c, buffer_id, start_offset, offset, input, unconvertible) ==
    <<request(c.request_id, buffer_id, <<>>, start_offset),
      request(c.request_id, buffer_id, input, offset)>>

\* update_completion, the kept session: the requests for the keys not cached
reuse_requests(c, buffer_id, start_offset, offset, input, unconvertible) ==
    LET start_pos == offset_to_position(unconvertible, start_offset)
        position == offset_to_position(unconvertible, offset)
    IN  (IF <<>> \notin DOMAIN c.input_items /\ start_pos # NoPosition
         THEN <<request(c.request_id, buffer_id, <<>>, start_pos)>>
         ELSE <<>>)
        \o
        (IF input \notin DOMAIN c.input_items /\ position # NoPosition
         THEN <<request(c.request_id, buffer_id, input, position)>>
         ELSE <<>>)

\* reset_session had it numbered the requests of each session from one
reset_session_from_one(c, buffer_id, start_offset, input) ==
    [c EXCEPT !.buffer_id = buffer_id,
              !.offset = start_offset,
              !.input = input,
              !.status = "Started",
              !.input_items = <<>>,
              !.request_id = 1]

\* reset_session had it not taken a new request id
reset_session_same_id(c, buffer_id, start_offset, input) ==
    [c EXCEPT !.buffer_id = buffer_id,
              !.offset = start_offset,
              !.input = input,
              !.status = "Started",
              !.input_items = <<>>]

\* update_completion, the new session
reset_session(c, buffer_id, start_offset, input) ==
    [c EXCEPT !.buffer_id = buffer_id,
              !.offset = start_offset,
              !.input = input,
              !.status = "Started",
              !.input_items = <<>>,
              !.request_id = c.request_id + 1]

\* update_completion, the new session: its requests
reset_requests(c, buffer_id, start_offset, offset, input, unconvertible) ==
    LET start_pos == offset_to_position(unconvertible, start_offset)
        position == offset_to_position(unconvertible, offset)
    IN  (IF start_pos # NoPosition
         THEN <<request(c.request_id, buffer_id, <<>>, start_pos)>>
         ELSE <<>>)
        \o
        (IF input # <<>> /\ position # NoPosition
         THEN <<request(c.request_id, buffer_id, input, position)>>
         ELSE <<>>)

\* what one run of update_completion leaves: the session, the requests sent
\* and the path taken
Outcome(c, sent, branch) == [completion |-> c, sent |-> sent, branch |-> branch]

\* update_completion had it returned outside Insert mode, and on an empty
\* input, without cancelling the session
update_completion_returns(c, mode, doc, content, offset, display_if_empty_input, unconvertible) ==
    IF mode # "Insert" THEN Outcome(c, <<>>, "not_insert")
    ELSE IF ~doc.loaded THEN Outcome(c, <<>>, "not_loaded")
    ELSE IF ~is_file(content) THEN Outcome(c, <<>>, "not_file")
    ELSE
    LET start_offset == prev_code_boundary(doc.text, offset)
        end_offset == next_code_boundary(doc.text, offset)
        input == slice_to_cow(doc.text, start_offset, end_offset)
        char == IF start_offset = 0 THEN <<>>
                ELSE slice_to_cow(doc.text, start_offset - 1, start_offset)
    IN  IF ~display_if_empty_input /\ input = <<>>
           /\ char # <<".">> /\ char # <<":">>
        THEN Outcome(c, <<>>, "empty_input")
        ELSE IF reuse_session(c, start_offset, doc.id)
        THEN LET kept == update_input(c, input)
             IN  Outcome(kept,
                         reuse_requests(kept, doc.id, start_offset, offset,
                                        input, unconvertible),
                         "reuse")
        ELSE LET started == reset_session(c, doc.id, start_offset, input)
             IN  Outcome(started,
                         reset_requests(started, doc.id, start_offset, offset,
                                        input, unconvertible),
                         "reset")

\* LapceEditorBufferData::update_completion
update_completion(c, mode, doc, content, offset, display_if_empty_input, unconvertible) ==
    IF mode # "Insert" THEN Outcome(cancel(c), <<>>, "not_insert")
    ELSE IF ~doc.loaded THEN Outcome(c, <<>>, "not_loaded")
    ELSE IF ~is_file(content) THEN Outcome(c, <<>>, "not_file")
    ELSE
    LET start_offset == prev_code_boundary(doc.text, offset)
        end_offset == next_code_boundary(doc.text, offset)
        input == slice_to_cow(doc.text, start_offset, end_offset)
        char == IF start_offset = 0 THEN <<>>
                ELSE slice_to_cow(doc.text, start_offset - 1, start_offset)
    IN  IF ~display_if_empty_input /\ input = <<>>
           /\ char # <<".">> /\ char # <<":">>
        THEN Outcome(cancel(c), <<>>, "empty_input")
        ELSE IF reuse_session(c, start_offset, doc.id)
        THEN LET kept == update_input(c, input)
             IN  Outcome(kept,
                         reuse_requests(kept, doc.id, start_offset, offset,
                                        input, unconvertible),
                         "reuse")
        ELSE LET started == reset_session(c, doc.id, start_offset, input)
             IN  Outcome(started,
                         reset_requests(started, doc.id, start_offset, offset,
                                        input, unconvertible),
                         "reset")

(* --------------------------- hover session --------------------------- *)

\* HoverData::new
NewHover ==
    [status |-> "Inactive", offset |-> 0, buffer_id |-> 0, editor_view_id |-> 0,
     items |-> <<>>, request_id |-> 0]

\* HoverData::receive: as CompletionData::receive, the items replace the old
hover_receive(h, request_id, resp) ==
    IF h.status = "Inactive" \/ h.request_id # request_id
    THEN h
    ELSE [h EXCEPT !.items = <<resp>>, !.status = "Active"]

\* the arguments of HoverData::request, as the proxy gets them
hover_request(request_id, buffer_id, position) ==
    [kind |-> "hover", request_id |-> request_id, buffer_id |-> buffer_id,
     input |-> <<>>, position |-> position]

\* hover_reset had it not taken a new request id
hover_reset_same_id(h, buffer_id, view_id, start_offset) ==
    [h EXCEPT !.buffer_id = buffer_id,
              !.editor_view_id = view_id,
              !.offset = start_offset,
              !.status = "Started",
              !.items = <<>>]

\* update_hover, the new session
hover_reset(h, buffer_id, view_id, start_offset) ==
    [h EXCEPT !.buffer_id = buffer_id,
              !.editor_view_id = view_id,
              !.offset = start_offset,
              !.status = "Started",
              !.items = <<>>,
              !.request_id = h.request_id + 1]

\* what one run of update_hover leaves
HoverOutcome(h, sent, branch) == [hover |-> h, sent |-> sent, branch |-> branch]

\* LapceEditorBufferData::update_hover
update_hover(h, doc, content, view_id, offset, unconvertible) ==
    IF ~doc.loaded THEN HoverOutcome(h, <<>>, "not_loaded")
    ELSE IF ~is_file(content) THEN HoverOutcome(h, <<>>, "not_file")
    ELSE
    LET start_offset == prev_code_boundary(doc.text, offset)
        end_offset == next_code_boundary(doc.text, offset)
        input == slice_to_cow(doc.text, start_offset, end_offset)
    IN  IF input = <<>> THEN HoverOutcome(h, <<>>, "empty_input")
        ELSE IF h.status # "Inactive" /\ h.offset = start_offset
                /\ h.buffer_id = doc.id
        THEN HoverOutcome(h, <<>>, "same")
        ELSE LET started == hover_reset(h, doc.id, view_id, start_offset)
                 start_pos == offset_to_position(unconvertible, start_offset)
             IN  HoverOutcome(started,
                              IF start_pos # NoPosition
                              THEN <<hover_request(started.request_id, doc.id,
                                                   start_pos)>>
                              ELSE <<>>,
                              "reset")

\* LapceEditorBufferData::check_hover
check_hover(h, doc, offset, is_inside, within_scroll) ==
    IF h.status # "Inactive"
    THEN IF ~is_inside \/ ~within_scroll THEN cancel(h)
         ELSE IF doc.id = h.buffer_id
                 /\ prev_code_boundary(doc.text, offset) = h.offset
         THEN h
         ELSE cancel(h)
    ELSE h

(* ------------------------ documents and editors ---------------------- *)

\* Document::new for a file, its content loaded or not
NewDocument(path, loaded) ==
    [id |-> BufferId(path), text |-> <<>>, rev |-> 0, loaded |-> loaded,
     pristine |-> TRUE, code_actions |-> <<>>]

\* Cursor::new in a modal configuration: Normal mode at offset 0
NewCursor == [mode |-> "Normal", start |-> 0, end |-> 0]

\* Option<Vec<(usize, (usize, usize))>>: no placeholder set, or its tab stops
NoSnippet == [some |-> FALSE, tabs |-> <<>>]
Snippet(tabs) == [some |-> TRUE, tabs |-> tabs]

\* LapceEditorData::new
NewEditor(content) ==
    [content |-> content, cursor |-> NewCursor, snippet |-> NoSnippet,
     locations |-> <<>>, current_location |-> 0, last_movement_new |-> "Left"]

\* Buffer::edit: [start, end) replaced by the characters of new_text
edit(doc, start, end, new_text) ==
    [doc EXCEPT !.text = SubSeq(doc.text, 1, start) \o new_text
                         \o SubSeq(doc.text, end + 1, Len(doc.text)),
                !.rev = doc.rev + 1,
                !.pristine = FALSE]

\* what an edit of the document leaves: the document, the cursor, the deltas
Edited(doc, cursor, deltas) == [doc |-> doc, cursor |-> cursor, deltas |-> deltas]

\* Document::do_insert: the selection is replaced by c, the caret follows it
do_insert(doc, cursor, c) ==
    LET start == Min(cursor.start, cursor.end)
        end == Max(cursor.start, cursor.end)
    IN  Edited(edit(doc, start, end, <<c>>),
               [cursor EXCEPT !.start = start + 1, !.end = start + 1],
               <<Delta(start, end, 1)>>)

\* Document::do_edit for the edit commands of the model
do_edit(doc, cursor, cmd) ==
    LET start == Min(cursor.start, cursor.end)
        end == Max(cursor.start, cursor.end)
        from == IF start = end /\ start > 0 THEN start - 1 ELSE start
    IN  CASE cmd = "DeleteBackward" /\ cursor.mode = "Insert" /\ from < end ->
                Edited(edit(doc, from, end, <<>>),
                       [cursor EXCEPT !.start = from, !.end = from],
                       <<Delta(from, end, 0)>>)
          [] cmd = "NormalMode" ->
                Edited(doc, [mode |-> "Normal", start |-> end, end |-> end], <<>>)
          [] cmd = "InsertMode" ->
                Edited(doc, [mode |-> "Insert", start |-> end, end |-> end], <<>>)
          [] OTHER -> Edited(doc, cursor, <<>>)

\* Buffer::is_pristine
is_pristine(doc) == doc.pristine

\* Movement::is_jump
is_jump(movement) == movement \in {"DocumentStart", "DocumentEnd"}

\* Document::move_cursor without a selection to extend
move_cursor(doc, cursor, movement) ==
    LET offset == cursor_offset(cursor)
        to == CASE movement = "Left" -> Max(offset - 1, 0)
                [] movement = "Right" -> Min(offset + 1, Len(doc.text))
                [] movement = "DocumentStart" -> 0
                [] movement = "DocumentEnd" -> Len(doc.text)
    IN  [cursor EXCEPT !.start = to, !.end = to]

\* EditorLocation of a file position (scroll offset and history tag left out)
EditorLocation(path, position) == [path |-> path, position |-> position]

\* LapceEditorData::save_jump_location
save_jump_location(editor, content) ==
    IF is_file(content)
    THEN [editor EXCEPT
            !.locations = Append(editor.locations,
                                 EditorLocation(content, cursor_offset(editor.cursor))),
            !.current_location = Len(editor.locations) + 1]
    ELSE editor

\* run_move_command: a cursor outside every placeholder drops the snippet
within_region(tabs, offset) ==
    \E i \in 1..Len(tabs) : offset >= tabs[i].start /\ offset <= tabs[i].end

\* update_snippet_offset had both ends drifted after an insertion, as the
\* update_snippet_offset had it let go of the placeholders that an edit
\* left empty
update_snippet_offset_dropping(editor, delta) ==
    IF editor.snippet.some
    THEN [editor EXCEPT !.snippet = Snippet(
            SelectSeq([i \in 1..Len(editor.snippet.tabs) |->
                        [tab |-> editor.snippet.tabs[i].tab,
                         start |-> transform(delta, editor.snippet.tabs[i].start, FALSE),
                         end |-> transform(delta, editor.snippet.tabs[i].end, TRUE)]],
                      LAMBDA t : t.start < t.end))]
    ELSE editor

\* ends of a cursor region do
update_snippet_offset_drifting(editor, delta) ==
    IF editor.snippet.some
    THEN [editor EXCEPT !.snippet = Snippet(
            [i \in 1..Len(editor.snippet.tabs) |->
                [tab |-> editor.snippet.tabs[i].tab,
                 start |-> transform(delta, editor.snippet.tabs[i].start, TRUE),
                 end |-> transform(delta, editor.snippet.tabs[i].end, TRUE)]])]
    ELSE editor

\* LapceEditorBufferData::update_snippet_offset
update_snippet_offset(editor, delta) ==
    IF editor.snippet.some
    THEN [editor EXCEPT !.snippet = Snippet(
            [i \in 1..Len(editor.snippet.tabs) |->
                [tab |-> editor.snippet.tabs[i].tab,
                 start |-> transform(delta, editor.snippet.tabs[i].start, FALSE),
                 end |-> transform(delta, editor.snippet.tabs[i].end, TRUE)]])]
    ELSE editor

\* inactive_apply_delta had it remapped every view of the document, the
\* acting one too
inactive_apply_delta_every_view(eds, acting, delta) ==
    [v \in DOMAIN eds |->
        IF eds[acting].content = eds[v].content
        THEN [eds[v] EXCEPT !.cursor = cursor_apply_delta(eds[v].cursor, delta)]
        ELSE eds[v]]

\* inactive_apply_delta had it taken every other view, whatever its content
inactive_apply_delta_any_content(eds, acting, delta) ==
    [v \in DOMAIN eds |->
        IF v # acting
        THEN [eds[v] EXCEPT !.cursor = cursor_apply_delta(eds[v].cursor, delta)]
        ELSE eds[v]]

\* LapceEditorBufferData::inactive_apply_delta
inactive_apply_delta(eds, acting, delta) ==
    [v \in DOMAIN eds |->
        IF v # acting /\ eds[acting].content = eds[v].content
        THEN [eds[v] EXCEPT !.cursor = cursor_apply_delta(eds[v].cursor, delta)]
        ELSE eds[v]]

RECURSIVE apply_deltas(_, _, _)
\* LapceEditorBufferData::apply_deltas
apply_deltas(eds, acting, deltas) ==
    IF deltas = <<>> THEN eds
    ELSE LET others == inactive_apply_delta(eds, acting, Head(deltas))
             remapped == [others EXCEPT
                            ![acting] = update_snippet_offset(others[acting], Head(deltas))]
         IN  apply_deltas(remapped, acting, Tail(deltas))

(* ------------------------------ handlers ----------------------------- *)

\* the acting editor and the document it shows
Editor == editors[active]
Doc == docs[Editor.content]

\* the edits committed so far
Edits == docs["a.rs"].rev + docs["b.rs"].rev

\* the files the user types in; the other file is only looked at
Typed == {"a.rs"}

\* a request at the proxy, with the buffer revision it was issued at and the
\* resets and cancellations its session had seen
Tagged(msg, rev, h) ==
    [msg |-> msg, rev |-> rev, resets |-> h.resets, cancels |-> h.cancels]

NoHistory == [resets |-> 0, cancels |-> 0]
NoRequest == Tagged(request(0, 0, <<>>, NoPosition), 0, NoHistory)

RECURSIVE Send(_, _)
\* the proxy gets the requests of one handler
Send(bag, msgs) ==
    IF msgs = <<>> THEN bag
    ELSE Send(bag (+) SetToBag({Head(msgs)}), Tail(msgs))

\* the resets and cancellations of a session after a handler ran
NextHistory(h, pre, post, branch) ==
    [resets |-> h.resets + (IF branch = "reset" THEN 1 ELSE 0),
     cancels |-> h.cancels
                 + (IF pre.status # "Inactive" /\ post.status = "Inactive"
                    THEN 1 ELSE 0)]

\* a session the handler did not run update_completion or update_hover on
Untouched(c) == Outcome(c, <<>>, "none")
HoverUntouched(h) == HoverOutcome(h, <<>>, "none")

\* the sessions and the requests that carry a request id
Sessions == {"completion", "hover"}

\* no run of backward and forward jumps is under way
NoRun == [origin |-> 0, back |-> 0, forth |-> 0, anchored |-> FALSE, pushed |-> 0]

\* what the handler that ran last did: the path update_completion
\* took, the requests sent; of a response, whether what it was
\* tagged with (request id, revision) is no longer current and whether its
\* session was cancelled since the request; of a cursor movement, the sessions
\* it met live; of a jump through the history, the run it belongs to; of an
\* edit, its deltas
Last(op, branch, sent, req) ==
    [op |-> op, branch |-> branch, sent |-> Len(sent),
     stale |-> IF req.msg.kind \in Sessions
               THEN /\ req.msg.request_id # 0
                    /\ req.msg.request_id #
                        (IF req.msg.kind = "hover" THEN hover
                         ELSE completion).request_id
               ELSE req.msg.rev # docs[req.msg.path].rev,
     cancelled |-> /\ req.msg.kind \in Sessions
                   /\ req.msg.request_id # 0
                   /\ req.cancels < history[req.msg.kind].cancels,
     met |-> IF op = "run_move_command"
             THEN [completion |-> completion.status # "Inactive",
                   hover |-> hover.status # "Inactive"]
             ELSE [completion |-> FALSE, hover |-> FALSE],
     run |-> NoRun, deltas |-> <<>>, log |-> <<>>]

\* the state a handler leaves, its requests handed to the proxy; deltas are
\* those of the edit the handler committed
HandledCall(op, docs2, editors2, out, hout, req, bag, deltas, call2) ==
    LET ch == NextHistory(history.completion, completion, out.completion, out.branch)
        hh == NextHistory(history.hover, hover, hout.hover, hout.branch)
        rev == docs2[editors2[active].content].rev
        sent == [i \in 1..Len(out.sent) |->
                    Tagged(out.sent[i], rev,
                           IF out.sent[i].kind \in Sessions THEN ch ELSE NoHistory)]
                \o [i \in 1..Len(hout.sent) |-> Tagged(hout.sent[i], rev, hh)]
    IN  /\ BagCardinality(bag) + Len(sent) <= MaxInflight
        /\ ch.resets <= MaxRequestId
        /\ hh.resets <= MaxRequestId
        /\ docs' = docs2
        /\ editors' = editors2
        /\ completion' = out.completion
        /\ hover' = hout.hover
        /\ inflight' = Send(bag, sent)
        /\ history' = [completion |-> ch, hover |-> hh]
        /\ last' = [Last(op, out.branch, sent, req) EXCEPT !.deltas = deltas]
        /\ call' = call2
        /\ UNCHANGED <<active, threads>>

\* the state a handler that committed no edit leaves

\* the state a handler leaves, the deltas of its edit recorded
HandledEdit(op, docs2, editors2, out, hout, req, bag, deltas) ==
    HandledCall(op, docs2, editors2, out, hout, req, bag, deltas, call)

Handled(op, docs2, editors2, out, hout, req, bag) ==
    HandledEdit(op, docs2, editors2, out, hout, req, bag, <<>>)

\* KeyPressFocus::receive_char in Insert mode
ReceiveChar(c, unconvertible) ==
    /\ Editor.cursor.mode = "Insert"
    /\ Editor.content \in Typed
    /\ Edits < MaxEdits
    /\ LET r == do_insert(Doc, Editor.cursor, c)
           eds == [editors EXCEPT ![active].cursor = r.cursor]
       IN  HandledEdit("receive_char",
                   [docs EXCEPT ![Editor.content] = r.doc],
                   apply_deltas(eds, active, r.deltas),
                   IF c # " "
                   THEN update_completion(completion, r.cursor.mode, r.doc,
                                          Editor.content, cursor_offset(r.cursor),
                                          FALSE, unconvertible)
                   ELSE Untouched(completion),
                   HoverOutcome(cancel(hover), <<>>, "none"),
                   NoRequest, inflight, r.deltas)

\* the edit commands after which run_edit_command leaves the completion alone
keeps_completion(cmd) ==
    cmd \in {"InsertNewLine", "InsertTab", "NewLineAbove", "NewLineBelow"}

\* LapceEditorBufferData::run_edit_command
RunEditCommand(cmd, unconvertible) ==
    LET r == do_edit(Doc, Editor.cursor, cmd)
        eds == [editors EXCEPT ![active].cursor = r.cursor]
    IN  /\ r.deltas # <<>> => Edits < MaxEdits /\ Editor.content \in Typed
        /\ HandledEdit("run_edit_command",
                   [docs EXCEPT ![Editor.content] = r.doc],
                   apply_deltas(eds, active, r.deltas),
                   IF keeps_completion(cmd)
                   THEN Untouched(completion)
                   ELSE update_completion(completion, r.cursor.mode, r.doc,
                                          Editor.content, cursor_offset(r.cursor),
                                          FALSE, unconvertible),
                   HoverUntouched(hover), NoRequest, inflight, r.deltas)

\* move_cancels had it cancelled the completion alone
move_cancels_completion_only(c, h) == [completion |-> cancel(c), hover |-> h]

\* run_move_command: what it leaves of the two sessions
move_cancels(c, h) == [completion |-> cancel(c), hover |-> cancel(h)]

\* pushes_jump had it not compared with the movement recorded last
pushes_jump_always(editor, movement) == is_jump(movement)

\* run_move_command: the movement pushes the location onto the jump history
pushes_jump(editor, movement) ==
    is_jump(movement) /\ movement # editor.last_movement_new

\* LapceEditorBufferData::run_move_command; the record of the handler names
\* the movement as its path
RunMoveCommand(movement) ==
    LET saved == IF pushes_jump(Editor, movement)
                 THEN save_jump_location(Editor, Editor.content)
                 ELSE Editor
        moved == [saved EXCEPT
                    !.last_movement_new = movement,
                    !.cursor = move_cursor(Doc, saved.cursor, movement)]
        kept == IF moved.snippet.some
                   /\ ~within_region(moved.snippet.tabs, cursor_offset(moved.cursor))
                THEN [moved EXCEPT !.snippet = NoSnippet]
                ELSE moved
        sessions == move_cancels(completion, hover)
    IN  Handled("run_move_command", docs,
                [editors EXCEPT ![active] = kept],
                Outcome(sessions.completion, <<>>, movement),
                HoverOutcome(sessions.hover, <<>>, "none"),
                NoRequest, inflight)

\* run_focus_command, FocusCommand::GetCompletion
GetCompletion(unconvertible) ==
    Handled("GetCompletion", docs, editors,
            update_completion(completion, Editor.cursor.mode, Doc,
                              Editor.content, cursor_offset(Editor.cursor),
                              TRUE, unconvertible),
            HoverUntouched(hover), NoRequest, inflight)

\* the pointer rests over offset: LapceEditorBufferData::update_hover
UpdateHover(offset, unconvertible) ==
    Handled("update_hover", docs, editors, Untouched(completion),
            update_hover(hover, Doc, Editor.content, active, offset, unconvertible),
            NoRequest, inflight)

\* the pointer moves: LapceEditorBufferData::check_hover
CheckHover(offset, is_inside, within_scroll) ==
    Handled("check_hover", docs, editors, Untouched(completion),
            HoverOutcome(check_hover(hover, Doc, offset, is_inside, within_scroll),
                         <<>>, "none"),
            NoRequest, inflight)

\* LapceUICommand::UpdateCompletion: the answer to a completion request
UpdateCompletion(r) ==
    /\ r \in BagToSet(inflight)
    /\ r.msg.kind = "completion"
    /\ Handled("UpdateCompletion", docs, editors,
               Untouched(receive(completion, r.msg.request_id, r.msg.input,
                                 r.msg.request_id)),
               HoverUntouched(hover), r, inflight (-) SetToBag({r}))

\* LapceUICommand::UpdateHover: the answer to a hover request
UpdateHoverItems(r) ==
    /\ r \in BagToSet(inflight)
    /\ r.msg.kind = "hover"
    /\ Handled("UpdateHover", docs, editors, Untouched(completion),
               HoverUntouched(hover_receive(hover, r.msg.request_id,
                                            r.msg.request_id)),
               r, inflight (-) SetToBag({r}))

\* the user focuses another editor: its LapceEditorBufferData handles what follows
FocusView(view) ==
    /\ view # active
    /\ active' = view
    /\ last' = Last("focus", "none", <<>>, NoRequest)
    /\ UNCHANGED <<call, docs, editors, completion, hover, inflight, threads, history>>

\* LapceUICommand::InitBufferContent: the content of a file arrives
InitBufferContent(path, content) ==
    /\ ~docs[path].loaded
    /\ docs' = [docs EXCEPT ![path].loaded = TRUE, ![path].text = content]
    /\ last' = Last("InitBufferContent", "none", <<>>, NoRequest)
    /\ UNCHANGED <<call, editors, active, completion, hover, inflight, threads, history>>

Offsets(text) == 0..Len(text)

\* the threads of the saves, none spawned yet
Threads == 1..MaxSaves
NoThread ==
    [pc |-> "idle", path |-> "", rev |-> 0, exit |-> FALSE,
     format_on_save |-> FALSE, channel |-> "empty", callback |-> "none",
     result |-> "none", commands |-> <<>>]
NoThreads == [t \in Threads |-> NoThread]

\* no handler has run
NewLast ==
    [op |-> "new", branch |-> "none", sent |-> 0,
     stale |-> FALSE, cancelled |-> FALSE,
     met |-> [completion |-> FALSE, hover |-> FALSE], run |-> NoRun,
     deltas |-> <<>>, log |-> <<>>]

(* --------- SpecSession: the completion session while the user types ---- *)

\* two editors in Insert mode (a configuration that is not modal), each on a
\* loaded empty file of its own; every offset converts to a position
InitSession ==
    /\ docs = [p \in Paths |-> NewDocument(p, TRUE)]
    /\ editors = [v \in Views |->
                    [NewEditor(IF v = 1 THEN "a.rs" ELSE "b.rs")
                        EXCEPT !.cursor.mode = "Insert"]]
    /\ active = 1
    /\ completion = NewCompletion
    /\ hover = NewHover
    /\ inflight = EmptyBag
    /\ threads = NoThreads
    /\ history = [completion |-> NoHistory, hover |-> NoHistory]
    /\ last = NewLast
    /\ call = NoCall

NextSession ==
    \/ \E c \in Chars : ReceiveChar(c, {})
    \/ RunEditCommand("DeleteBackward", {})
    \/ GetCompletion({})
    \/ \E r \in BagToSet(inflight) : UpdateCompletion(r)
    \/ \E v \in Views : FocusView(v)

SpecSession == InitSession /\ [][NextSession]_vars

(* ---- SpecCancel: both sessions over a text that is read, not edited --- *)

\* the content of a.rs: one word
Content == <<"a">>

\* the pointer over the word, outside the editor, over a part scrolled away
Pointer ==
    {[offset |-> 0, is_inside |-> TRUE, within_scroll |-> TRUE],
     [offset |-> 0, is_inside |-> FALSE, within_scroll |-> TRUE],
     [offset |-> 0, is_inside |-> TRUE, within_scroll |-> FALSE]}

\* a modal configuration: one editor in Normal mode on a file not yet loaded
InitCancel ==
    /\ docs = [p \in Paths |-> NewDocument(p, FALSE)]
    /\ editors = [v \in Views |-> NewEditor(IF v = 1 THEN "a.rs" ELSE "b.rs")]
    /\ active = 1
    /\ completion = NewCompletion
    /\ hover = NewHover
    /\ inflight = EmptyBag
    /\ threads = NoThreads
    /\ history = [completion |-> NoHistory, hover |-> NoHistory]
    /\ last = NewLast
    /\ call = NoCall

NextCancel ==
    \/ InitBufferContent("a.rs", Content)
    \/ \E cmd \in {"NormalMode", "InsertMode"} : RunEditCommand(cmd, {})
    \/ \E m \in {"Left", "Right"} : RunMoveCommand(m)
    \/ GetCompletion({})
    \/ \E o \in Offsets(Doc.text) : UpdateHover(o, {})
    \/ \E p \in Pointer : CheckHover(p.offset, p.is_inside, p.within_scroll)
    \/ \E r \in BagToSet(inflight) : UpdateCompletion(r)
    \/ \E r \in BagToSet(inflight) : UpdateHoverItems(r)

SpecCancel == InitCancel /\ [][NextCancel]_vars

(* --- SpecBackground: results tagged with the revision they were asked at - *)

\* the kinds of background request whose result carries a revision
Background == {"code_actions", "resolve", "format"}

\* CompletionItem::text_edit: none, or the range to replace and its new text
NoTextEdit == [some |-> FALSE, start |-> 0, end |-> 0, new_text |-> <<>>]
TextEdit(start, end, new_text) ==
    [some |-> TRUE, start |-> start, end |-> end, new_text |-> new_text]

\* CompletionTextEdit::InsertAndReplace: an edit of the other kind
InsertAndReplace(start, end, new_text) ==
    [some |-> FALSE, start |-> start, end |-> end, new_text |-> new_text]

\* a completion item without a text edit: its label, and whether it has data
\* to resolve
Item(label, data) ==
    [label |-> label, data |-> data, text_edit |-> NoTextEdit,
     insert_text_format |-> "PlainText", additional_text_edits |-> <<>>]
Items == {Item(<<"a">>, TRUE), Item(<<"a">>, FALSE)}
NoItem == Item(<<>>, FALSE)

\* what the proxy resolves an item to: the item with an additional edit at
\* the top of the file
resolve(item) ==
    [item EXCEPT !.additional_text_edits = <<TextEdit(0, 0, <<"b">>)>>]

\* resolved_or had it kept the item it was asked to resolve
resolved_or_unresolved(item, result) == item

\* the callback of completion_resolve: the resolved item, or the item itself
\* when resolving failed
resolved_or(item, result) == IF result = "item" THEN resolve(item) ELSE item

\* the revision captured with a background request had it been left unset
request_rev_unset(doc) == 0

\* let rev = self.doc.rev(), captured when the request is issued
request_rev(doc) == doc.rev

\* what the callback of a background request hands back to the owning thread
background_request(kind, path, doc, offset, item) ==
    [kind |-> kind, request_id |-> 0, path |-> path, buffer_id |-> doc.id,
     rev |-> request_rev(doc), offset |-> offset, item |-> item]

\* LapceEditorBufferData::get_code_actions: the request it sends, if any
get_code_actions(doc, content, cursor, unconvertible) ==
    IF ~doc.loaded THEN <<>>
    ELSE IF ~is_file(content) THEN <<>>
    ELSE LET prev_offset == prev_code_boundary(doc.text, cursor_offset(cursor))
         IN  IF prev_offset \in DOMAIN doc.code_actions THEN <<>>
             ELSE IF offset_to_position(unconvertible, prev_offset) = NoPosition
             THEN <<>>
             ELSE <<background_request("code_actions", content, doc,
                                       prev_offset, NoItem)>>

\* CompletionData::len: the items on display, those cached for the input or
\* else those cached for the empty input
len(c) ==
    IF c.input \in DOMAIN c.input_items \/ <<>> \in DOMAIN c.input_items
    THEN 1 ELSE 0

\* LapceEditorBufferData::has_completions
has_completions(c) == c.status # "Inactive" /\ len(c) > 0

\* the tab number written as the digit c
Digit(c) == CASE c = "0" -> 0 [] c = "1" -> 1 [] c = "2" -> 2 [] c = "3" -> 3

RECURSIVE closing(_, _)
\* the offset of the brace that closes the placeholder opened before i
closing(s, i) == IF i > Len(s) \/ s[i] = "}" THEN i ELSE closing(s, i + 1)

\* what a snippet is parsed to: its text, and the tab stops in the order met
Parsed(txt, stops) == [text |-> txt, stops |-> stops]

RECURSIVE from_str(_, _, _)
\* Snippet::from_str from offset i on: ${n:default} is a tab stop over its
\* default text, $n a tab stop over nothing, anything else is text
from_str(s, i, parsed) ==
    IF i > Len(s) THEN parsed
    ELSE IF s[i] = "$" /\ i + 3 <= Len(s) /\ s[i + 1] = "{"
    THEN LET close == closing(s, i + 4)
             default == SubSeq(s, i + 4, close - 1)
             at == Len(parsed.text)
         IN  from_str(s, close + 1,
                      Parsed(parsed.text \o default,
                             Append(parsed.stops,
                                    [tab |-> Digit(s[i + 2]), start |-> at,
                                     end |-> at + Len(default)])))
    ELSE IF s[i] = "$" /\ i + 1 <= Len(s)
    THEN LET at == Len(parsed.text)
         IN  from_str(s, i + 2,
                      Parsed(parsed.text,
                             Append(parsed.stops,
                                    [tab |-> Digit(s[i + 1]), start |-> at,
                                     end |-> at])))
    ELSE from_str(s, i + 1, Parsed(Append(parsed.text, s[i]), parsed.stops))

\* Snippet::text
snippet_text(snippet) == snippet.text

\* the place of a tab stop in the order of navigation: by its number, the
\* stop numbered 0 last
tab_order(stop) == IF stop.tab = 0 THEN 10 ELSE stop.tab

RECURSIVE sorted_stops(_)
\* the tab stops in the order of navigation
sorted_stops(stops) ==
    IF stops = <<>> THEN <<>>
    ELSE LET i == CHOOSE i \in 1..Len(stops) :
                    \A j \in 1..Len(stops) :
                        \/ tab_order(stops[i]) < tab_order(stops[j])
                        \/ tab_order(stops[i]) = tab_order(stops[j]) /\ i <= j
         IN  <<stops[i]>> \o sorted_stops(SubSeq(stops, 1, i - 1)
                                          \o SubSeq(stops, i + 1, Len(stops)))

\* Snippet::tabs(pos): the tab stops of a snippet inserted at pos
snippet_tabs(snippet, pos) ==
    LET stops == sorted_stops(snippet.stops)
    IN  [i \in 1..Len(stops) |->
            [tab |-> stops[i].tab, start |-> pos + stops[i].start,
             end |-> pos + stops[i].end]]

\* LapceEditorData::add_snippet_placeholders for an editor without a live set
add_snippet_placeholders(editor, new_placeholders) ==
    IF new_placeholders = <<>> THEN editor
    ELSE [editor EXCEPT !.snippet = Snippet(new_placeholders)]

\* Buffer::offset_of_position: none for a position beyond the buffer
offset_of_position(doc, position) ==
    IF position > Len(doc.text) THEN NoPosition ELSE position

\* Snippet::from_str fails on a placeholder that is opened and never closed
parses(s) ==
    \A i \in 1..Len(s) :
        (s[i] = "$" /\ i + 1 <= Len(s) /\ s[i + 1] = "{")
            => closing(s, i + 2) <= Len(s)

RECURSIVE sorted_edits(_)
\* Buffer::edit: the replacements in the order of the text, an insertion
\* before a replacement that starts where it is made, equal ranges in the
\* order given
sorted_edits(edits) ==
    IF edits = <<>> THEN <<>>
    ELSE LET i == CHOOSE i \in 1..Len(edits) :
                    \A j \in 1..Len(edits) :
                        \/ edits[i].start < edits[j].start
                        \/ /\ edits[i].start = edits[j].start
                           /\ edits[i].end < edits[j].end
                        \/ /\ edits[i].start = edits[j].start
                           /\ edits[i].end = edits[j].end
                           /\ i <= j
         IN  <<edits[i]>> \o sorted_edits(SubSeq(edits, 1, i - 1)
                                          \o SubSeq(edits, i + 1, Len(edits)))

RECURSIVE replaced(_, _)
\* the text with the sorted replacements made, each at the offsets it has in
\* the text before the edit
replaced(text, edits) ==
    IF edits = <<>> THEN text
    ELSE LET e == edits[Len(edits)]
         IN  replaced(SubSeq(text, 1, e.start) \o e.new_text
                        \o SubSeq(text, e.end + 1, Len(text)),
                      SubSeq(edits, 1, Len(edits) - 1))

RECURSIVE delta_of(_)
\* the one delta of the sorted replacements
delta_of(edits) ==
    LET e == Head(edits)
    IN  [Delta(e.start, e.end, Len(e.new_text)) EXCEPT
            !.more = IF Len(edits) = 1 THEN <<>> ELSE <<delta_of(Tail(edits))>>]

\* Document::do_raw_edit: all the replacements in one edit of the buffer, one
\* revision and one delta
do_raw_edit(doc, edits) ==
    [doc |-> [doc EXCEPT !.text = replaced(@, sorted_edits(edits)),
                         !.rev = @ + 1,
                         !.pristine = FALSE],
     deltas |-> <<delta_of(sorted_edits(edits))>>]

\* what the application of a completion item leaves: the document, the cursor,
\* the deltas, the placeholders to register, and whether it returned Ok
Applied(doc, cursor, deltas, placeholders) ==
    [doc |-> doc, cursor |-> cursor, deltas |-> deltas,
     placeholders |-> placeholders, ok |-> TRUE]

\* apply_completion_item returns an error
Failed(doc, cursor) == [Applied(doc, cursor, <<>>, <<>>) EXCEPT !.ok = FALSE]

RECURSIVE transform_all(_, _, _)
\* selection.apply_delta: an offset taken through the deltas in turn
transform_all(deltas, ix, after) ==
    IF deltas = <<>> THEN ix
    ELSE transform_all(Tail(deltas), transform(Head(deltas), ix, after), after)

\* insert_plain had it committed the additional edits in an edit of their own
insert_plain_one_by_one(doc, cursor, from, to, new_text, additional_edit) ==
    LET first == do_raw_edit(doc, <<TextEdit(from, to, new_text)>>)
        second == IF additional_edit = <<>>
                  THEN [doc |-> first.doc, deltas |-> <<>>]
                  ELSE do_raw_edit(first.doc, additional_edit)
    IN  Applied(second.doc,
                [cursor EXCEPT !.start = transform_all(first.deltas, from, TRUE),
                               !.end = transform_all(first.deltas, to, TRUE)],
                first.deltas \o second.deltas, <<>>)

\* apply_completion_item, the text is inserted as it is: [from, to) and the
\* additional edits are replaced in one edit, the caret goes behind the text
insert_plain(doc, cursor, from, to, new_text, additional_edit) ==
    LET r == do_raw_edit(doc, <<TextEdit(from, to, new_text)>> \o additional_edit)
    IN  Applied(r.doc,
                [cursor EXCEPT !.start = transform_all(r.deltas, from, TRUE),
                               !.end = transform_all(r.deltas, to, TRUE)],
                r.deltas, <<>>)

\* apply_completion_item, the text is a snippet: its text is inserted with the
\* additional edits in one edit, its tab stops are the placeholders and the
\* first of them is selected
insert_snippet(doc, cursor, from, to, snippet, additional_edit) ==
    LET r == do_raw_edit(doc, <<TextEdit(from, to, snippet_text(snippet))>>
                              \o additional_edit)
        placeholders == snippet_tabs(snippet, transform_all(r.deltas, from, FALSE))
    IN  Applied(r.doc,
                IF placeholders = <<>>
                THEN [cursor EXCEPT
                        !.start = transform_all(r.deltas, from, TRUE),
                        !.end = transform_all(r.deltas, to, TRUE)]
                ELSE [mode |-> "Insert",
                      start |-> placeholders[1].start,
                      end |-> placeholders[1].end],
                r.deltas, placeholders)

\* every additional edit of the item has offsets for its two positions
additional_convert(doc, item) ==
    \A i \in 1..Len(item.additional_text_edits) :
        /\ offset_of_position(doc, item.additional_text_edits[i].start) # NoPosition
        /\ offset_of_position(doc, item.additional_text_edits[i].end) # NoPosition

\* the additional edits of the item at their offsets
additional_offsets(doc, item) ==
    [i \in 1..Len(item.additional_text_edits) |->
        TextEdit(offset_of_position(doc, item.additional_text_edits[i].start),
                 offset_of_position(doc, item.additional_text_edits[i].end),
                 item.additional_text_edits[i].new_text)]

\* apply_completion_item had it looked at the additional edits only after
\* the edit of the item was committed
apply_completion_item_checked_late(doc, cursor, item) ==
    LET offset == cursor_offset(cursor)
        start_offset == prev_code_boundary(doc.text, offset)
        end_offset == next_code_boundary(doc.text, offset)
        additional_edit == additional_offsets(doc, item)
    IN  IF ~additional_convert(doc, item)
        THEN [insert_plain(doc, cursor, start_offset, end_offset, item.label, <<>>)
                EXCEPT !.ok = FALSE]
        ELSE insert_plain(doc, cursor, start_offset, end_offset, item.label,
                          additional_edit)

\* apply_completion_item had it replaced the range of the text edit alone
apply_completion_item_edit_range(doc, cursor, item) ==
    LET additional_edit == additional_offsets(doc, item)
    IN  IF ~additional_convert(doc, item) THEN Failed(doc, cursor)
        ELSE insert_plain(doc, cursor, item.text_edit.start, item.text_edit.end,
                          item.text_edit.new_text, additional_edit)

\* apply_completion_item: the word at the cursor, widened to the range of the
\* text edit, is replaced by the new text, plain or parsed as a snippet; an
\* item without a text edit replaces the word by its label; a position
\* without an offset or a snippet that does not parse is an error
apply_completion_item(doc, cursor, item) ==
    LET offset == cursor_offset(cursor)
        start_offset == prev_code_boundary(doc.text, offset)
        end_offset == next_code_boundary(doc.text, offset)
        additional_edit == additional_offsets(doc, item)
        edit_start == offset_of_position(doc, item.text_edit.start)
        edit_end == offset_of_position(doc, item.text_edit.end)
        from == Min(start_offset, edit_start)
        to == Max(end_offset, edit_end)
    IN  IF ~additional_convert(doc, item) THEN Failed(doc, cursor)
        ELSE IF item.text_edit.some
                /\ (edit_start = NoPosition \/ edit_end = NoPosition)
        THEN Failed(doc, cursor)
        ELSE IF item.text_edit.some /\ item.insert_text_format = "PlainText"
        THEN insert_plain(doc, cursor, from, to, item.text_edit.new_text,
                          additional_edit)
        ELSE IF item.text_edit.some /\ item.insert_text_format = "Snippet"
        THEN IF ~parses(item.text_edit.new_text) THEN Failed(doc, cursor)
             ELSE insert_snippet(doc, cursor, from, to,
                                 from_str(item.text_edit.new_text, 1,
                                          Parsed(<<>>, <<>>)),
                                 additional_edit)
        ELSE insert_plain(doc, cursor, start_offset, end_offset, item.label,
                          additional_edit)

\* completion_applied had the new placeholders been added before the deltas
\* went to the placeholders
completion_applied_added_first(eds, acting, applied) ==
    LET set == [eds EXCEPT ![acting].cursor = applied.cursor]
        added == [set EXCEPT
                    ![acting] = add_snippet_placeholders(@, applied.placeholders)]
    IN  apply_deltas(added, acting, applied.deltas)

\* the editors after apply_completion_item: the cursor is set, the deltas go
\* to the other views and to the placeholders, the new placeholders are added
completion_applied(eds, acting, applied) ==
    LET set == [eds EXCEPT ![acting].cursor = applied.cursor]
        remapped == apply_deltas(set, acting, applied.deltas)
    IN  [remapped EXCEPT
            ![acting] = add_snippet_placeholders(@, applied.placeholders)]

\* the owning thread's test of a result: its revision is the buffer's
still_current(doc, rev) == doc.rev = rev

\* what the formatter makes of a text: a blank ends it
formatted(text) ==
    IF text # <<>> /\ text[Len(text)] = " " THEN text ELSE text \o <<" ">>

\* the code actions for the cursor are asked for
GetCodeActions(unconvertible) ==
    Handled("get_code_actions", docs, editors,
            Outcome(completion,
                    get_code_actions(Doc, Editor.content, Editor.cursor,
                                     unconvertible),
                    "none"),
            HoverUntouched(hover), NoRequest, inflight)

\* run_focus_command, FocusCommand::ListSelect outside the palette
ListSelect(item) ==
    /\ has_completions(completion)
    /\ IF item.data
       THEN Handled("ListSelect", docs, editors,
                    Outcome(cancel(completion),
                            <<background_request("resolve", Editor.content, Doc,
                                                 cursor_offset(Editor.cursor),
                                                 item)>>,
                            "none"),
                    HoverUntouched(hover), NoRequest, inflight)
       ELSE LET r == apply_completion_item(Doc, Editor.cursor, item)
            IN  /\ Edits < MaxEdits
                /\ HandledEdit("ListSelect",
                               [docs EXCEPT ![Editor.content] = r.doc],
                               completion_applied(editors, active, r),
                               Outcome(cancel(completion), <<>>, "none"),
                               HoverUntouched(hover), NoRequest, inflight,
                               r.deltas)

\* run_focus_command, FocusCommand::FormatDocument: the thread it spawns asks
\* the proxy and hands back what came within the second it waits
FormatDocument ==
    /\ is_file(Editor.content)
    /\ Handled("FormatDocument", docs, editors,
               Outcome(completion,
                       <<background_request("format", Editor.content, Doc, 0,
                                            NoItem)>>,
                       "none"),
               HoverUntouched(hover), NoRequest, inflight)

\* LapceUICommand::UpdateCodeActions
UpdateCodeActions(r) ==
    /\ r \in BagToSet(inflight)
    /\ r.msg.kind = "code_actions"
    /\ Handled("UpdateCodeActions",
               IF still_current(docs[r.msg.path], r.msg.rev)
               THEN [docs EXCEPT ![r.msg.path].code_actions =
                        insert(@, r.msg.offset, r.msg.rev)]
               ELSE docs,
               editors, Untouched(completion), HoverUntouched(hover),
               r, inflight (-) SetToBag({r}))

\* the proxy answers get_code_actions with an error: nothing is submitted
CodeActionsError(r) ==
    /\ r \in BagToSet(inflight)
    /\ r.msg.kind = "code_actions"
    /\ Handled("code_actions_error", docs, editors, Untouched(completion),
               HoverUntouched(hover), r, inflight (-) SetToBag({r}))

\* LapceUICommand::ResolveCompletion with the item the callback submitted
ResolveCompletion(r, result) ==
    /\ r \in BagToSet(inflight)
    /\ r.msg.kind = "resolve"
    /\ IF still_current(docs[r.msg.path], r.msg.rev)
       THEN LET e == apply_completion_item(docs[r.msg.path], Editor.cursor,
                                           resolved_or(r.msg.item, result))
            IN  /\ Edits < MaxEdits
                /\ HandledEdit("ResolveCompletion",
                               [docs EXCEPT ![r.msg.path] = e.doc],
                               completion_applied(editors, active, e),
                               Untouched(completion), HoverUntouched(hover),
                               r, inflight (-) SetToBag({r}), e.deltas)
       ELSE Handled("ResolveCompletion", docs, editors, Untouched(completion),
                    HoverUntouched(hover), r, inflight (-) SetToBag({r}))

\* LapceUICommand::DocumentFormat with the edits of the formatter or an error
DocumentFormat(r, result) ==
    /\ r \in BagToSet(inflight)
    /\ r.msg.kind = "format"
    /\ IF /\ result = "edits"
          /\ still_current(docs[r.msg.path], r.msg.rev)
          /\ formatted(docs[r.msg.path].text) # docs[r.msg.path].text
       THEN /\ Edits < MaxEdits
            /\ Handled("DocumentFormat",
                       [docs EXCEPT ![r.msg.path] =
                            edit(@, Len(@.text), Len(@.text), <<" ">>)],
                       editors,
                       Untouched(completion), HoverUntouched(hover),
                       r, inflight (-) SetToBag({r}))
       ELSE Handled("DocumentFormat", docs, editors, Untouched(completion),
                    HoverUntouched(hover), r, inflight (-) SetToBag({r}))

\* one editor in Insert mode on a loaded empty file; the user asks for
\* completions when none are shown, and the edits are those of the results
InitBackground ==
    /\ docs = [p \in Paths |-> NewDocument(p, TRUE)]
    /\ editors = [v \in Views |->
                    [NewEditor(IF v = 1 THEN "a.rs" ELSE "b.rs")
                        EXCEPT !.cursor.mode = "Insert"]]
    /\ active = 1
    /\ completion = NewCompletion
    /\ hover = NewHover
    /\ inflight = EmptyBag
    /\ threads = NoThreads
    /\ history = [completion |-> NoHistory, hover |-> NoHistory]
    /\ last = NewLast
    /\ call = NoCall

NextBackground ==
    \/ completion.status = "Inactive" /\ GetCompletion({})
    \/ \E r \in BagToSet(inflight) : UpdateCompletion(r)
    \/ GetCodeActions({})
    \/ \E item \in Items : ListSelect(item)
    \/ FormatDocument
    \/ \E r \in BagToSet(inflight) : UpdateCodeActions(r)
    \/ \E r \in BagToSet(inflight) : CodeActionsError(r)
    \/ \E r \in BagToSet(inflight), result \in {"item", "error"} :
            ResolveCompletion(r, result)
    \/ \E r \in BagToSet(inflight), result \in {"edits", "error"} :
            DocumentFormat(r, result)

SpecBackground == InitBackground /\ [][NextBackground]_vars

(* ------------- SpecSave: the thread that formats before a save -------- *)

\* thread::spawn in save: what the closure captured
spawn(path, rev, exit, format_on_save) ==
    [NoThread EXCEPT !.pc = "spawned", !.path = path, !.rev = rev,
                     !.exit = exit, !.format_on_save = format_on_save]

\* recv_timeout had it been a recv: it returns without a value only when the
\* sender is gone
disconnected(thread) == thread.channel = "empty" /\ thread.callback = "dropped"

\* receiver.recv_timeout(Duration::from_secs(1)) returns without a value:
\* nothing was sent within the second, or the sender is gone
timed_out(thread) == thread.channel = "empty"

\* the command the thread submits to the owning thread
save_command(thread) ==
    IF thread.format_on_save
    THEN [kind |-> "DocumentFormatAndSave", path |-> thread.path,
          rev |-> thread.rev, result |-> thread.result, exit |-> thread.exit]
    ELSE [kind |-> "DocumentSave", path |-> thread.path, exit |-> thread.exit]

\* the first thread not yet spawned
FreeThread == CHOOSE t \in Threads :
                /\ threads[t].pc = "idle"
                /\ \A u \in Threads : threads[u].pc = "idle" => t <= u

\* FocusCommand::SplitClose, submitted to the widget of a view
SplitClose(view_id) == [kind |-> "SplitClose", target |-> view_id]

\* save had it closed the split of a pristine file without being asked to exit
close_always(exit, view_id) == <<SplitClose(view_id)>>

\* save of a pristine file: the commands it submits
close_on_exit(exit, view_id) ==
    IF exit THEN <<SplitClose(view_id)>> ELSE <<>>

\* LapceEditorBufferData::save; the step records the commands submitted to
\* the widgets
Save(exit, format_on_save) ==
    /\ IF is_pristine(Doc) /\ is_file(Editor.content)
       THEN /\ last' = Last("save", "pristine", close_on_exit(exit, active),
                            NoRequest)
                            @@ [commands |-> close_on_exit(exit, active)]
            /\ UNCHANGED threads
       ELSE /\ is_file(Editor.content)
            /\ \E t \in Threads : threads[t].pc = "idle"
            /\ threads' = [threads EXCEPT ![FreeThread] =
                             spawn(Editor.content, Doc.rev, exit, format_on_save)]
            /\ last' = Last("save", "spawned", <<>>, NoRequest)
                            @@ [commands |-> <<>>]
    /\ UNCHANGED <<call, docs, editors, active, completion, hover, inflight, history>>

\* the thread calls proxy.get_document_formatting with the sending callback
ThreadRequest(t) ==
    /\ threads[t].pc = "spawned"
    /\ threads' = [threads EXCEPT ![t].pc = "waiting", ![t].callback = "pending"]
    /\ UNCHANGED <<call, docs, editors, active, completion, hover, inflight, history, last>>

\* the proxy runs the callback: sender.send(result), lost when the receiver
\* is gone
ProxyRespond(t, result) ==
    /\ threads[t].callback = "pending"
    /\ threads' = [threads EXCEPT
                    ![t].callback = "answered",
                    ![t].channel = IF threads[t].pc # "done" THEN result ELSE @]
    /\ UNCHANGED <<call, docs, editors, active, completion, hover, inflight, history, last>>

\* the proxy drops the callback without running it
ProxyDrop(t) ==
    /\ threads[t].callback = "pending"
    /\ threads' = [threads EXCEPT ![t].callback = "dropped"]
    /\ UNCHANGED <<call, docs, editors, active, completion, hover, inflight, history, last>>

\* recv_timeout returns what the callback sent
ThreadReceive(t) ==
    /\ threads[t].pc = "waiting"
    /\ threads[t].channel # "empty"
    /\ threads' = [threads EXCEPT ![t].pc = "received",
                                  ![t].result = threads[t].channel,
                                  ![t].channel = "empty"]
    /\ UNCHANGED <<call, docs, editors, active, completion, hover, inflight, history, last>>

\* recv_timeout returns an error
ThreadTimeout(t) ==
    /\ threads[t].pc = "waiting"
    /\ timed_out(threads[t])
    /\ threads' = [threads EXCEPT ![t].pc = "received", ![t].result = "timeout"]
    /\ UNCHANGED <<call, docs, editors, active, completion, hover, inflight, history, last>>

\* event_sink.submit_command, the closure ends and drops the receiver
ThreadSubmit(t) ==
    /\ threads[t].pc = "received"
    /\ threads' = [threads EXCEPT
                    ![t].pc = "done",
                    ![t].commands = Append(@, save_command(threads[t]))]
    /\ UNCHANGED <<call, docs, editors, active, completion, hover, inflight, history, last>>

\* the steps of the thread, which the scheduler and the timer let happen
ThreadStep(t) ==
    \/ ThreadRequest(t)
    \/ ThreadReceive(t)
    \/ ThreadTimeout(t)
    \/ ThreadSubmit(t)

\* one editor in Insert mode on a loaded empty file
InitSave ==
    /\ docs = [p \in Paths |-> NewDocument(p, TRUE)]
    /\ editors = [v \in Views |->
                    [NewEditor(IF v = 1 THEN "a.rs" ELSE "b.rs")
                        EXCEPT !.cursor.mode = "Insert"]]
    /\ active = 1
    /\ completion = NewCompletion
    /\ hover = NewHover
    /\ inflight = EmptyBag
    /\ threads = NoThreads
    /\ history = [completion |-> NoHistory, hover |-> NoHistory]
    /\ last = NewLast
    /\ call = NoCall

NextSave ==
    \/ ReceiveChar(" ", {})
    \/ \E exit, format_on_save \in BOOLEAN : Save(exit, format_on_save)
    \/ \E t \in Threads : ThreadStep(t)
    \/ \E t \in Threads, result \in {"edits", "error"} : ProxyRespond(t, result)
    \/ \E t \in Threads : ProxyDrop(t)
    \/ \E v \in Views : FocusView(v)

\* the scheduler runs every thread, and the wait of a thread ends with the
\* second it is bounded by
SpecSave ==
    /\ InitSave
    /\ [][NextSave]_vars
    /\ \A t \in Threads : WF_vars(ThreadStep(t))

(* --------------- SpecJump: backward and forward in the jump history ---- *)

\* the content of the file the jumps move in
JumpContent == <<"a", "a">>

\* LapceUICommand::GoToLocationNew for a location of the file on display
go_to_location(editor, location) ==
    [editor EXCEPT !.cursor.start = location.position,
                   !.cursor.end = location.position]

\* at_head had it held at every index
at_head_always(editor) == TRUE

\* jump_location_backward: the editor is at the head of its history
at_head(editor) == editor.current_location >= Len(editor.locations)

\* what a jump leaves: the editor and the go-to-location commands submitted
Jumped(editor, emitted) == [editor |-> editor, emitted |-> emitted]

\* jump_location_forward had it read the location before moving the index
jump_location_forward_stale(editor) ==
    IF editor.locations = <<>> THEN Jumped(editor, <<>>)
    ELSE IF editor.current_location >= Len(editor.locations) - 1
    THEN Jumped(editor, <<>>)
    ELSE Jumped([editor EXCEPT !.current_location = @ + 1],
                <<editor.locations[editor.current_location + 1]>>)

\* LapceEditorBufferData::jump_location_forward
jump_location_forward(editor) ==
    IF editor.locations = <<>> THEN Jumped(editor, <<>>)
    ELSE IF editor.current_location >= Len(editor.locations) - 1
    THEN Jumped(editor, <<>>)
    ELSE LET moved == [editor EXCEPT !.current_location = @ + 1]
         IN  Jumped(moved, <<moved.locations[moved.current_location + 1]>>)

\* LapceEditorBufferData::jump_location_backward
\* jump_location_backward had the position at the head not been saved
jump_location_backward_unsaved(editor, content) ==
    IF editor.current_location < 1 THEN Jumped(editor, <<>>)
    ELSE LET saved == IF at_head(editor)
                      THEN [editor EXCEPT !.current_location = @ - 1]
                      ELSE editor
             moved == [saved EXCEPT !.current_location = @ - 1]
         IN  Jumped(moved,
                    IF moved.current_location \in 0..(Len(moved.locations) - 1)
                    THEN <<moved.locations[moved.current_location + 1]>>
                    ELSE <<>>)

jump_location_backward(editor, content) ==
    IF editor.current_location < 1 THEN Jumped(editor, <<>>)
    ELSE LET saved == IF at_head(editor)
                      THEN [save_jump_location(editor, content)
                                EXCEPT !.current_location = @ - 1]
                      ELSE editor
             moved == [saved EXCEPT !.current_location = @ - 1]
         IN  Jumped(moved, <<moved.locations[moved.current_location + 1]>>)

\* the editor after the commands a jump submitted
Landed(j) ==
    IF j.emitted = <<>> THEN j.editor ELSE go_to_location(j.editor, j.emitted[1])

\* the cursor is on the entry the index points at
AtEntry(editor) ==
    /\ editor.current_location < Len(editor.locations)
    /\ editor.locations[editor.current_location + 1].position
        = cursor_offset(editor.cursor)

\* run_focus_command, FocusCommand::JumpLocationBackward
JumpLocationBackward ==
    LET j == jump_location_backward(Editor, Editor.content)
        pushed == Len(j.editor.locations) - Len(Editor.locations)
        run == IF j.emitted = <<>> THEN NoRun
               ELSE IF last.run.back > 0 /\ last.run.forth = 0
               THEN [last.run EXCEPT !.back = @ + 1, !.pushed = @ + pushed]
               ELSE [origin |-> cursor_offset(Editor.cursor), back |-> 1,
                     forth |-> 0,
                     anchored |-> \/ Editor.current_location >= Len(Editor.locations)
                              \/ AtEntry(Editor),
                     pushed |-> pushed]
    IN  /\ Len(j.editor.locations) <= MaxLocations
        /\ editors' = [editors EXCEPT ![active] = Landed(j)]
        /\ last' = [Last("jump_location_backward", "none", j.emitted,
                         NoRequest) EXCEPT !.run = run]
        /\ UNCHANGED <<call, docs, active, completion, hover, inflight, threads, history>>

\* run_focus_command, FocusCommand::JumpLocationForward
JumpLocationForward ==
    LET j == jump_location_forward(Editor)
        run == IF j.emitted # <<>> /\ last.run.back > last.run.forth
               THEN [last.run EXCEPT !.forth = @ + 1]
               ELSE NoRun
    IN  /\ editors' = [editors EXCEPT ![active] = Landed(j)]
        /\ last' = [Last("jump_location_forward", "none", j.emitted,
                         NoRequest) EXCEPT !.run = run]
        /\ UNCHANGED <<call, docs, active, completion, hover, inflight, threads, history>>

\* one editor in Normal mode on a file not yet loaded
InitJump ==
    /\ docs = [p \in Paths |-> NewDocument(p, FALSE)]
    /\ editors = [v \in Views |-> NewEditor(IF v = 1 THEN "a.rs" ELSE "b.rs")]
    /\ active = 1
    /\ completion = NewCompletion
    /\ hover = NewHover
    /\ inflight = EmptyBag
    /\ threads = NoThreads
    /\ history = [completion |-> NoHistory, hover |-> NoHistory]
    /\ last = NewLast
    /\ call = NoCall

NextJump ==
    \/ InitBufferContent("a.rs", JumpContent)
    \/ \E m \in {"Left", "Right"} : RunMoveCommand(m)
    \/ \E m \in {"DocumentStart", "DocumentEnd"} :
            Len(Editor.locations) < MaxLocations /\ RunMoveCommand(m)
    \/ JumpLocationBackward
    \/ JumpLocationForward

SpecJump == InitJump /\ [][NextJump]_vars

(* ------- SpecNext: the next diff and the next error, free functions ---- *)

\* the offsets of hunk starts and of the cursor stop here
MaxOffset == 2

\* the paths of the files with changes or diagnostics, in the order of PathBuf
Ordered == <<"a.rs", "b.rs", "c.rs">>

\* the place of a path in that order
path_index(path) == CHOOSE i \in 1..Len(Ordered) : Ordered[i] = path

\* PathBuf: current_path > path
path_greater(current_path, path) == path_index(current_path) > path_index(path)

\* lsp_types::Position
Position(line, character) == [line |-> line, character |-> character]

\* the positions of a file of two lines and two columns
Positions == {Position(l, c) : l \in {0, 1}, c \in {0, 1}}

\* what the functions return: a path and an offset, or a position, in it
Found(path, at) == [path |-> path, at |-> at]

\* diff_after had it taken a hunk at the offset itself
diff_after_or_at(diff_offset, offset) == diff_offset >= offset

\* next_in_file_diff_offset: *diff_offset > offset
diff_after(diff_offset, offset) == diff_offset > offset

RECURSIVE diff_in_file(_, _, _)
\* next_in_file_diff_offset, the loop over the offsets of the current file
diff_in_file(offsets, offset, j) ==
    IF j > Len(offsets) THEN <<>>
    ELSE IF diff_after(offsets[j], offset) THEN <<offsets[j]>>
    ELSE diff_in_file(offsets, offset, j + 1)

RECURSIVE diff_loop(_, _, _, _)
\* next_in_file_diff_offset, the loop over the files and the return after it
diff_loop(offset, path, file_diffs, i) ==
    IF i > Len(file_diffs)
    THEN Found(file_diffs[1].path, file_diffs[1].offsets[1])
    ELSE LET current == file_diffs[i]
             here == IF path = current.path
                     THEN diff_in_file(current.offsets, offset, 1)
                     ELSE <<>>
         IN  IF here # <<>> THEN Found(current.path, here[1])
             ELSE IF path_greater(current.path, path)
             THEN Found(current.path, current.offsets[1])
             ELSE diff_loop(offset, path, file_diffs, i + 1)

\* next_in_file_diff_offset
next_in_file_diff_offset(offset, path, file_diffs) ==
    diff_loop(offset, path, file_diffs, 1)

\* error_after had it taken a diagnostic at the position itself
error_after_or_at(error_position, position) ==
    \/ error_position.line > position.line
    \/ /\ error_position.line = position.line
       /\ error_position.character >= position.character

\* next_in_file_errors_offset: the test on line and character
error_after(error_position, position) ==
    \/ error_position.line > position.line
    \/ /\ error_position.line = position.line
       /\ error_position.character > position.character

RECURSIVE error_in_file(_, _, _)
\* next_in_file_errors_offset, the loop over the positions of the current file
error_in_file(positions, position, j) ==
    IF j > Len(positions) THEN <<>>
    ELSE IF error_after(positions[j], position) THEN <<positions[j]>>
    ELSE error_in_file(positions, position, j + 1)

RECURSIVE error_loop(_, _, _, _)
\* next_in_file_errors_offset, the loop over the files and the return after it
error_loop(position, path, file_diagnostics, i) ==
    IF i > Len(file_diagnostics)
    THEN Found(file_diagnostics[1].path, file_diagnostics[1].positions[1])
    ELSE LET current == file_diagnostics[i]
             here == IF path = current.path
                     THEN error_in_file(current.positions, position, 1)
                     ELSE <<>>
         IN  IF here # <<>> THEN Found(current.path, here[1])
             ELSE IF path_greater(current.path, path)
             THEN Found(current.path, current.positions[1])
             ELSE error_loop(position, path, file_diagnostics, i + 1)

\* next_in_file_errors_offset
next_in_file_errors_offset(position, path, file_diagnostics) ==
    error_loop(position, path, file_diagnostics, 1)

\* the non-empty lists of offsets in ascending order
OffsetLists ==
    {l \in UNION {[1..n -> 0..MaxOffset] : n \in 1..(MaxOffset + 1)} :
        \A j \in 1..(Len(l) - 1) : l[j] < l[j + 1]}

\* the non-empty lists of positions in ascending order
PositionLists ==
    {l \in UNION {[1..n -> Positions] : n \in 1..Cardinality(Positions)} :
        \A j \in 1..(Len(l) - 1) :
            \/ l[j].line < l[j + 1].line
            \/ l[j].line = l[j + 1].line /\ l[j].character < l[j + 1].character}

\* the non-empty lists of paths in the order diff_files.sort() leaves
PathLists ==
    {l \in UNION {[1..n -> 1..Len(Ordered)] : n \in 1..Len(Ordered)} :
        \A j \in 1..(Len(l) - 1) : l[j] < l[j + 1]}

\* the lists of files with changes: a path and its hunk starts
FileDiffs ==
    UNION {{[i \in 1..Len(l) |-> [path |-> Ordered[l[i]], offsets |-> o[i]]] :
                o \in [1..Len(l) -> OffsetLists]} : l \in PathLists}

\* the lists of files with diagnostics: a path and its start positions
FileDiagnostics ==
    UNION {{[i \in 1..Len(l) |-> [path |-> Ordered[l[i]], positions |-> o[i]]] :
                o \in [1..Len(l) -> PositionLists]} : l \in PathLists}

\* next_diff calls next_in_file_diff_offset
NextInFileDiffOffset ==
    /\ call.pc = "called"
    /\ call.fn = "next_in_file_diff_offset"
    /\ call' = [call EXCEPT
                  !.pc = "returned",
                  !.result = next_in_file_diff_offset(call.offset, call.path,
                                                       call.files)]
    /\ UNCHANGED <<docs, editors, active, completion, hover, inflight, threads,
                   history, last>>

\* next_error calls next_in_file_errors_offset
NextInFileErrorsOffset ==
    /\ call.pc = "called"
    /\ call.fn = "next_in_file_errors_offset"
    /\ call' = [call EXCEPT
                  !.pc = "returned",
                  !.result = next_in_file_errors_offset(call.offset, call.path,
                                                         call.files)]
    /\ UNCHANGED <<docs, editors, active, completion, hover, inflight, threads,
                   history, last>>

\* a call with any cursor, any current file, any sorted list of files
InitNext ==
    /\ docs = [p \in Paths |-> NewDocument(p, TRUE)]
    /\ editors = [v \in Views |-> NewEditor(IF v = 1 THEN "a.rs" ELSE "b.rs")]
    /\ active = 1
    /\ completion = NewCompletion
    /\ hover = NewHover
    /\ inflight = EmptyBag
    /\ threads = NoThreads
    /\ history = [completion |-> NoHistory, hover |-> NoHistory]
    /\ last = NewLast
    /\ \/ \E offset \in 0..MaxOffset, i \in 1..Len(Ordered), files \in FileDiffs :
            call = [pc |-> "called", fn |-> "next_in_file_diff_offset",
                    offset |-> offset, path |-> Ordered[i], files |-> files,
                    result |-> Found("", 0)]
       \/ \E position \in Positions, i \in 1..Len(Ordered),
             files \in FileDiagnostics :
            call = [pc |-> "called", fn |-> "next_in_file_errors_offset",
                    offset |-> position, path |-> Ordered[i], files |-> files,
                    result |-> Found("", Position(0, 0))]

NextNext ==
    \/ NextInFileDiffOffset
    \/ NextInFileErrorsOffset

SpecNext == InitNext /\ [][NextNext]_vars

(* ------ SpecSnippet: snippets, their placeholders, two views of a file -- *)

\* the text of the snippet foo(${1:a}, ${2:b})
FooSnippet ==
    <<"f", "o", "o", "(", "$", "{", "1", ":", "a", "}", ",", " ",
      "$", "{", "2", ":", "b", "}", ")">>

\* the text of the snippet (${1:a}${2:ab}$0: text before the stops, two stops
\* that touch, a last stop at the end
ThreeStops ==
    <<"(", "$", "{", "1", ":", "a", "}", "$", "{", "2", ":", "a", "b", "}",
      "$", "0">>

\* a completion item whose text edit inserts a snippet at offset
SnippetItem(new_text, offset) ==
    [label |-> <<>>, data |-> FALSE,
     text_edit |-> TextEdit(offset, offset, new_text),
     insert_text_format |-> "Snippet", additional_text_edits |-> <<>>]

\* the items the language server proposes at offset: the two snippets, and a
\* word without a text edit
SnippetItems(offset) ==
    {SnippetItem(FooSnippet, offset), SnippetItem(ThreeStops, offset),
     Item(<<"a">>, FALSE)}

\* the index of the stop taken as current: the first whose range holds the
\* offset, the first of the list if none does (index from 1)
current_last_containing(tabs, offset) ==
    IF within_region(tabs, offset)
    THEN CHOOSE i \in 1..Len(tabs) :
            /\ tabs[i].start <= offset /\ offset <= tabs[i].end
            /\ \A j \in (i + 1)..Len(tabs) :
                    ~(tabs[j].start <= offset /\ offset <= tabs[j].end)
    ELSE 1

\* for (i, (_, (start, end))) in snippet.iter().enumerate(): the first stop
\* whose range holds the offset, the first of the list if none does
current_placeholder(tabs, offset) ==
    IF within_region(tabs, offset)
    THEN CHOOSE i \in 1..Len(tabs) :
            /\ tabs[i].start <= offset /\ offset <= tabs[i].end
            /\ \A j \in 1..(i - 1) :
                    ~(tabs[j].start <= offset /\ offset <= tabs[j].end)
    ELSE 1

\* last_placeholder had it been true only of the last stop of the list
last_placeholder_at_end(tabs, current) == current >= Len(tabs)

\* let last_placeholder = current + 1 >= snippet.len() - 1, current from 0
last_placeholder(tabs, current) == current >= Len(tabs) - 1

\* FocusCommand::JumpToNextSnippetPlaceholder, what it leaves of the editor
jump_to_next_snippet_placeholder(editor) ==
    LET tabs == editor.snippet.tabs
        current == current_placeholder(tabs, cursor_offset(editor.cursor))
        moved == IF current + 1 <= Len(tabs)
                 THEN [editor EXCEPT
                         !.cursor = [mode |-> "Insert",
                                     start |-> tabs[current + 1].start,
                                     end |-> tabs[current + 1].end]]
                 ELSE editor
    IN  IF last_placeholder(tabs, current)
        THEN [moved EXCEPT !.snippet = NoSnippet]
        ELSE moved

\* FocusCommand::JumpToPrevSnippetPlaceholder, what it leaves of the editor
jump_to_prev_snippet_placeholder(editor) ==
    LET tabs == editor.snippet.tabs
        current == current_placeholder(tabs, cursor_offset(editor.cursor))
    IN  IF current > 1
        THEN [editor EXCEPT
                !.cursor = [mode |-> "Insert",
                            start |-> tabs[current - 1].start,
                            end |-> tabs[current - 1].end]]
        ELSE editor

\* run_focus_command, FocusCommand::JumpToNextSnippetPlaceholder: nothing is
\* done without a live placeholder set
JumpToNextSnippetPlaceholder ==
    /\ Editor.snippet.some
    /\ Handled("JumpToNextSnippetPlaceholder", docs,
               [editors EXCEPT
                  ![active] = jump_to_next_snippet_placeholder(Editor)],
               Outcome(cancel(completion), <<>>, "snippet"),
               HoverUntouched(hover), NoRequest, inflight)

\* run_focus_command, FocusCommand::JumpToPrevSnippetPlaceholder: nothing is
\* done without a live placeholder set, nor at its first stop
JumpToPrevSnippetPlaceholder ==
    /\ Editor.snippet.some
    /\ IF current_placeholder(Editor.snippet.tabs,
                              cursor_offset(Editor.cursor)) > 1
       THEN Handled("JumpToPrevSnippetPlaceholder", docs,
                    [editors EXCEPT
                       ![active] = jump_to_prev_snippet_placeholder(Editor)],
                    Outcome(cancel(completion), <<>>, "snippet"),
                    HoverUntouched(hover), NoRequest, inflight)
       ELSE Handled("JumpToPrevSnippetPlaceholder", docs, editors,
                    Untouched(completion), HoverUntouched(hover),
                    NoRequest, inflight)

\* the cursor of the acting editor lies in its buffer; the rope panics on an
\* offset beyond its length, and the editor is gone
InBuffer ==
    /\ Editor.cursor.start <= Len(Doc.text)
    /\ Editor.cursor.end <= Len(Doc.text)

\* two editors in Insert mode, the first on the loaded empty file a.rs, the
\* second on the same file or on b.rs
\* the completion session once get_completion ran in the empty file a.rs and
\* the proxy answered
Shown ==
    receive(update_completion(NewCompletion, "Insert",
                              NewDocument("a.rs", TRUE), "a.rs", 0, TRUE,
                              {}).completion,
            1, <<>>, 1)

\* two editors in Insert mode, the first on the loaded empty file a.rs, the
\* second on the same file or on b.rs; the completions asked for in a.rs are
\* on display
InitSnippet ==
    /\ docs = [p \in Paths |-> NewDocument(p, TRUE)]
    /\ \E other \in Paths :
            editors = [v \in Views |->
                        [NewEditor(IF v = 1 THEN "a.rs" ELSE other)
                            EXCEPT !.cursor.mode = "Insert"]]
    /\ active = 1
    /\ completion = Shown
    /\ hover = NewHover
    /\ inflight = EmptyBag
    /\ threads = NoThreads
    /\ history = [completion |-> [resets |-> 1, cancels |-> 0],
                  hover |-> NoHistory]
    /\ last = NewLast
    /\ call = NoCall

\* the user types blanks, deletes, moves left, picks a completion (a snippet
\* only while no placeholders are live), walks the tab stops, and goes from
\* one editor to the other
NextSnippet ==
    \/ InBuffer /\ ReceiveChar(" ", {})
    \/ InBuffer /\ RunEditCommand("DeleteBackward", {})
    \/ RunMoveCommand("Left")
    \/ \E item \in SnippetItems(cursor_offset(Editor.cursor)) :
            /\ InBuffer
            /\ Editor.content \in Typed
            /\ item.insert_text_format = "Snippet" => ~Editor.snippet.some
            /\ ListSelect(item)
    \/ JumpToNextSnippetPlaceholder
    \/ JumpToPrevSnippetPlaceholder
    \/ \E v \in Views : FocusView(v)

SpecSnippet == InitSnippet /\ [][NextSnippet]_vars

(* ------- SpecItem: completion items with ranges and additional edits --- *)

\* the content of a.rs: a word, a dot, a word
ItemContent == <<"a", ".", "f", "o">>

\* a snippet with one tab stop, and one whose placeholder is never closed
CallSnippet == <<"f", "(", "$", "{", "1", ":", "a", "}", ")">>
Unclosed == <<"$", "{", "1", ":", "a">>

\* an additional edit that inserts at the start of the file, and one whose
\* position lies beyond the end of the file however long it gets
AtTop == TextEdit(0, 0, <<"b">>)
Beyond == TextEdit(99, 99, <<"b">>)

\* the items the language server proposes: b by its label, by a text edit
\* over a range, with additional edits, as a snippet; positions beyond the
\* end of the file and a snippet that does not parse among them
ItemChoices ==
    {Item(<<"b">>, FALSE),
     [Item(<<"b">>, FALSE) EXCEPT !.text_edit = TextEdit(1, 3, <<"b">>)],
     [Item(<<"b">>, FALSE) EXCEPT !.text_edit = TextEdit(3, 3, <<"b">>)],
     [Item(<<"b">>, FALSE) EXCEPT !.text_edit = TextEdit(3, 5, <<"b">>)],
     [Item(<<"b">>, FALSE) EXCEPT !.text_edit = TextEdit(5, 5, <<"b">>)],
     [Item(<<"b">>, FALSE) EXCEPT !.text_edit = InsertAndReplace(1, 3, <<"o">>)],
     [Item(<<"b">>, FALSE) EXCEPT !.additional_text_edits = <<AtTop>>],
     [Item(<<"b">>, FALSE) EXCEPT !.additional_text_edits = <<Beyond>>],
     [Item(<<"b">>, FALSE) EXCEPT !.additional_text_edits = <<AtTop, Beyond>>],
     [Item(<<"b">>, FALSE) EXCEPT !.text_edit = TextEdit(3, 3, <<"b">>),
                                  !.additional_text_edits = <<AtTop>>],
     SnippetItem(CallSnippet, 3),
     [SnippetItem(CallSnippet, 3) EXCEPT !.additional_text_edits = <<AtTop>>],
     SnippetItem(Unclosed, 3)}

\* the additional edits of the item lie before the word at the cursor and
\* before the range of its text edit: the builder of the delta takes no
\* replacements that overlap
Apart(item) ==
    \A i \in 1..Len(item.additional_text_edits) :
        /\ item.additional_text_edits[i].end
            < prev_code_boundary(Doc.text, cursor_offset(Editor.cursor))
        /\ item.text_edit.some
            => item.additional_text_edits[i].end < item.text_edit.start

\* the completion session once get_completion ran at offset of a.rs and the
\* proxy answered
ShownAt(offset) ==
    receive(update_completion(NewCompletion, "Insert",
                              [NewDocument("a.rs", TRUE) EXCEPT !.text = ItemContent],
                              "a.rs", offset, TRUE, {}).completion,
            1, <<>>, 1)

\* two editors in Insert mode on the loaded file a.rs, the cursor of the first
\* anywhere in it and that of the second at its end; the completions asked
\* for at the cursor of the first are on display
InitItem ==
    /\ docs = [p \in Paths |->
                [NewDocument(p, TRUE) EXCEPT
                    !.text = IF p = "a.rs" THEN ItemContent ELSE <<>>]]
    /\ \E at \in [Views -> Offsets(ItemContent)] :
        /\ at[2] = Len(ItemContent)
        /\ editors = [v \in Views |->
                        [NewEditor("a.rs") EXCEPT
                            !.cursor = [mode |-> "Insert", start |-> at[v],
                                        end |-> at[v]]]]
        /\ completion = ShownAt(at[1])
    /\ active = 1
    /\ hover = NewHover
    /\ inflight = EmptyBag
    /\ threads = NoThreads
    /\ history = [completion |-> [resets |-> 1, cancels |-> 0],
                  hover |-> NoHistory]
    /\ last = NewLast
    /\ call = NoCall

\* the user picks a completion (a snippet only while no placeholders are
\* live), asks for the completions again, and goes from one editor to the other
NextItem ==
    \/ \E item \in ItemChoices :
            /\ InBuffer
            /\ Apart(item)
            /\ item.insert_text_format = "Snippet" => ~Editor.snippet.some
            /\ ListSelect(item)
    \/ InBuffer /\ completion.status = "Inactive" /\ GetCompletion({})
    \/ \E r \in BagToSet(inflight) : UpdateCompletion(r)
    \/ \E v \in Views : FocusView(v)

SpecItem == InitItem /\ [][NextItem]_vars

(* ---- SpecPosition: offsets the buffer cannot convert to positions ---- *)

\* the sets of offsets a buffer has no position for
Unconvertibles == {{}, {0}, {1}}

\* the commands of the user that edit or change the mode
EditCommands == {"InsertMode", "NormalMode", "DeleteBackward"}

\* a modal configuration: the editor in Normal mode on the loaded empty file
\* a.rs; b.rs, not loaded, is not looked at
InitPosition ==
    /\ docs = [p \in Paths |-> NewDocument(p, p = "a.rs")]
    /\ editors = [v \in Views |-> NewEditor(IF v = 1 THEN "a.rs" ELSE "b.rs")]
    /\ active = 1
    /\ completion = NewCompletion
    /\ hover = NewHover
    /\ inflight = EmptyBag
    /\ threads = NoThreads
    /\ history = [completion |-> NoHistory, hover |-> NoHistory]
    /\ last = NewLast
    /\ call = NoCall

\* the user changes the mode, types, deletes and asks for completions; the
\* proxy answers
NextPosition ==
    \/ \E c \in Chars, u \in Unconvertibles : ReceiveChar(c, u)
    \/ \E cmd \in EditCommands, u \in Unconvertibles : RunEditCommand(cmd, u)
    \/ \E u \in Unconvertibles : GetCompletion(u)
    \/ \E r \in BagToSet(inflight) : UpdateCompletion(r)

SpecPosition == InitPosition /\ [][NextPosition]_vars

(* ------- SpecPointer: the pointer rests over a text of two words ------- *)

\* the content of a.rs: two words
PointerContent == <<"a", " ", "b">>

\* the first editor on the loaded file a.rs, the second on b.rs, not loaded
InitPointer ==
    /\ docs = [p \in Paths |->
                IF p = "a.rs"
                THEN [NewDocument(p, TRUE) EXCEPT !.text = PointerContent]
                ELSE NewDocument(p, FALSE)]
    /\ editors = [v \in Views |-> NewEditor(IF v = 1 THEN "a.rs" ELSE "b.rs")]
    /\ active = 1
    /\ completion = NewCompletion
    /\ hover = NewHover
    /\ inflight = EmptyBag
    /\ threads = NoThreads
    /\ history = [completion |-> NoHistory, hover |-> NoHistory]
    /\ last = NewLast
    /\ call = NoCall

\* the pointer rests over an offset of the editor under it or moves on, the
\* user moves the cursor; the proxy answers
NextPointer ==
    \/ \E o \in Offsets(PointerContent), u \in Unconvertibles : UpdateHover(o, u)
    \/ \E p \in Pointer : CheckHover(p.offset, p.is_inside, p.within_scroll)
    \/ RunMoveCommand("Right")
    \/ \E r \in BagToSet(inflight) : UpdateHoverItems(r)
    \/ \E v \in Views : FocusView(v)

SpecPointer == InitPointer /\ [][NextPointer]_vars

(* -------- SpecCodeAction: the workspace edit of a code action --------- *)

\* a Url: its scheme and its path
FileUrl(path) == [scheme |-> "file", path |-> path]
WebUrl(path) == [scheme |-> "http", path |-> path]
NoPath == ""

\* Url::to_file_path: an error for a url that is not a file url
to_file_path(url) == IF url.scheme = "file" THEN url.path ELSE NoPath

\* url_matches_path: the path of the url is the path, or the url of the path
\* is the url
url_matches_path(path, url) ==
    \/ to_file_path(url) # NoPath /\ to_file_path(url) = path
    \/ FileUrl(path) = url

\* OneOf<TextEdit, AnnotatedTextEdit>
Left(e) == [annotation |-> "", text_edit |-> e]
Right(e) == [annotation |-> "id", text_edit |-> e]

\* TextDocumentEdit, and the entries of DocumentChanges::Operations
TextDocumentEdit(uri, edits) == [uri |-> uri, edits |-> edits]
Edit(e) == [kind |-> "Edit", edit |-> e]
Op(kind) == [kind |-> kind, edit |-> TextDocumentEdit(WebUrl(""), <<>>)]

\* WorkspaceEdit: changes, or document_changes as Edits or Operations
NoChanges == [some |-> FALSE, map |-> <<>>]
Changes(map) == [some |-> TRUE, map |-> map]
NoDocumentChanges == [kind |-> "None", list |-> <<>>]
WorkspaceEdit(changes, document_changes) ==
    [changes |-> changes, document_changes |-> document_changes]

\* the text edits of a TextDocumentEdit, annotations dropped
text_edits(e) == [i \in 1..Len(e.edits) |-> e.edits[i].text_edit]

RECURSIVE collect(_, _)
\* Iterator::collect into a HashMap: a later entry for a key replaces the
\* earlier one
collect(entries, map) ==
    IF entries = <<>> THEN map
    ELSE collect(Tail(entries),
                 insert(map, Head(entries).uri, text_edits(Head(entries))))

RECURSIVE filter_map(_)
\* the TextDocumentEdits of an operation list, the other operations left out
filter_map(ops) ==
    IF ops = <<>> THEN <<>>
    ELSE (IF Head(ops).kind = "Edit" THEN <<Head(ops).edit>> ELSE <<>>)
         \o filter_map(Tail(ops))

\* workspace_edits: the per-file map of the text edits, none when the edit has
\* neither changes nor document_changes; nothing is logged
workspace_edits(workspace_edit) ==
    IF workspace_edit.changes.some THEN Changes(workspace_edit.changes.map)
    ELSE IF workspace_edit.document_changes.kind = "None" THEN NoChanges
    ELSE IF workspace_edit.document_changes.kind = "Edits"
    THEN Changes(collect(workspace_edit.document_changes.list, <<>>))
    ELSE Changes(collect(filter_map(workspace_edit.document_changes.list), <<>>))

\* every edit of the list has offsets for its two positions
edits_convert(doc, edits) ==
    \A i \in 1..Len(edits) :
        /\ offset_of_position(doc, edits[i].start) # NoPosition
        /\ offset_of_position(doc, edits[i].end) # NoPosition

\* the edits of the list that have offsets
convertible(doc, edits) ==
    SelectSeq(edits, LAMBDA e : /\ offset_of_position(doc, e.start) # NoPosition
                                /\ offset_of_position(doc, e.end) # NoPosition)

\* what main_split holds and what a call did to it: the documents, the
\* editors, the requests to navigate, the log, and the edit calls made
Split(ds, eds, sent, log, calls) ==
    [docs |-> ds, editors |-> eds, sent |-> sent, log |-> log, calls |-> calls]

\* LapceMainSplitData::edit: one edit of the document at path, the cursors of
\* the editors that show it taken through its delta
main_split_edit(split, path, edits, edit_type) ==
    LET r == do_raw_edit(split.docs[path], edits)
    IN  [split EXCEPT
            !.docs[path] = r.doc,
            !.editors = [v \in Views |->
                            IF split.editors[v].content = path
                            THEN [split.editors[v] EXCEPT
                                    !.cursor = cursor_apply_delta(@, r.deltas[1])]
                            ELSE split.editors[v]],
            !.calls = Append(@, [path |-> path, edit_type |-> edit_type,
                                 deltas |-> r.deltas])]

\* apply_code_action had it applied the edits it could convert
apply_code_action_convertible(split, path, edits) ==
    IF convertible(split.docs[path], edits) # <<>>
    THEN main_split_edit(split, path, convertible(split.docs[path], edits), "Other")
    ELSE [split EXCEPT !.log = Append(@, "error: position")]

\* apply_code_action: all the edits in one edit, or none and an error logged
apply_code_action(split, path, edits) ==
    IF edits_convert(split.docs[path], edits)
    THEN main_split_edit(split, path,
                         [i \in 1..Len(edits) |->
                            TextEdit(offset_of_position(split.docs[path], edits[i].start),
                                     offset_of_position(split.docs[path], edits[i].end),
                                     edits[i].new_text)],
                         "Other")
    ELSE [split EXCEPT !.log = Append(@, "error: position")]

\* navigate had it kept the first edit alone for its continuation
navigate_first_edit(view, url_path, edits) ==
    [kind |-> "navigate", request_id |-> 0, path |-> url_path, rev |-> 0,
     view |-> view,
     position |-> IF edits = <<>> THEN NoPosition ELSE edits[1].start,
     edits |-> SubSeq(edits, 1, 1)]

\* run_code_action, a file other than the one on display: the location to jump
\* to, the start of the first edit, and the continuation with the edits
navigate(view, url_path, edits) ==
    [kind |-> "navigate", request_id |-> 0, path |-> url_path, rev |-> 0,
     view |-> view,
     position |-> IF edits = <<>> THEN NoPosition ELSE edits[1].start,
     edits |-> edits]

RECURSIVE visit(_, _, _, _, _)
\* run_code_action: the files of the map, in the order the HashMap yields them
visit(split, view, path, map, order) ==
    IF order = <<>> THEN split
    ELSE LET url == Head(order)
             edits == map[url]
             next ==
                IF url_matches_path(path, url)
                THEN apply_code_action(split, path, edits)
                ELSE IF to_file_path(url) # NoPath
                THEN [split EXCEPT
                        !.sent = Append(@, navigate(view, to_file_path(url), edits))]
                ELSE [split EXCEPT !.log = Append(@, "warn: url")]
         IN  visit(next, view, path, map, Tail(order))

\* CodeActionOrCommand: a command, a code action without an edit, or one
\* with a workspace edit
Command == [kind |-> "Command", edit |-> WorkspaceEdit(NoChanges, NoDocumentChanges)]
CodeAction(workspace_edit) == [kind |-> "CodeAction", edit |-> workspace_edit]

\* LapceEditorBufferData::run_code_action
run_code_action(split, view, content, action, order) ==
    IF ~is_file(content) THEN split
    ELSE IF action.kind = "Command" THEN split
    ELSE IF ~workspace_edits(action.edit).some THEN split
    ELSE visit(split, view, content, workspace_edits(action.edit).map, order)

\* the orders a HashMap may yield its keys in
Orders(map) ==
    {order \in UNION {[1..n -> DOMAIN map] : n \in {Cardinality(DOMAIN map)}} :
        \A i, j \in DOMAIN order : i # j => order[i] # order[j]}

\* the state a call on main_split leaves
Committed(op, split, req, bag) ==
    LET rev == split.docs[split.editors[active].content].rev
        sent == [i \in 1..Len(split.sent) |-> Tagged(split.sent[i], rev, NoHistory)]
    IN  /\ BagCardinality(bag) + Len(sent) <= MaxInflight
        /\ split.docs["a.rs"].rev + split.docs["b.rs"].rev <= MaxEdits
        /\ docs' = split.docs
        /\ editors' = split.editors
        /\ inflight' = Send(bag, sent)
        /\ last' = [Last(op, "none", sent, req) EXCEPT
                        !.deltas = split.calls, !.log = split.log]
        /\ UNCHANGED <<call, active, completion, hover, threads, history>>

\* the user picks a code action of the list; the files of its edit other than
\* the one on display are not open and not being opened
RunCodeAction(action, order) ==
    /\ Doc.loaded
    /\ LET found == workspace_edits(action.edit)
       IN  /\ order \in Orders(found.map)
           /\ \A url \in DOMAIN found.map :
                (to_file_path(url) # NoPath /\ ~url_matches_path(Editor.content, url))
                => /\ ~docs[to_file_path(url)].loaded
                   /\ ~\E r \in BagToSet(inflight) :
                        r.msg.kind = "navigate" /\ r.msg.path = to_file_path(url)
    /\ Committed("run_code_action",
                 run_code_action(Split(docs, editors, <<>>, <<>>, <<>>), active,
                                 Editor.content, action, order),
                 NoRequest, inflight)

\* the content of b.rs on disk
OtherContent == <<"f", "o">>

\* the file a code action asked for is open and its content there (the
\* open-notification): the view shows it at the location, and the
\* continuation applies the edits
OpenNotification(r) ==
    /\ r \in BagToSet(inflight)
    /\ r.msg.kind = "navigate"
    /\ LET path == r.msg.path
           opened == [docs EXCEPT ![path].loaded = TRUE, ![path].text = OtherContent]
           at == IF r.msg.position = NoPosition
                    \/ offset_of_position(opened[path], r.msg.position) = NoPosition
                 THEN 0
                 ELSE offset_of_position(opened[path], r.msg.position)
           shown == [editors EXCEPT
                        ![r.msg.view] =
                            go_to_location([@ EXCEPT !.content = path,
                                                     !.snippet = NoSnippet],
                                           EditorLocation(path, at))]
       IN  Committed("open_notification",
                     apply_code_action(Split(opened, shown, <<>>, <<>>, <<>>),
                                       path, r.msg.edits),
                     r, inflight (-) SetToBag({r}))

\* the file a code action asked for did not become available: the
\* continuation finds no document, logs a warning and drops the edits
OpenFailed(r) ==
    /\ r \in BagToSet(inflight)
    /\ r.msg.kind = "navigate"
    /\ Committed("open_failed",
                 Split(docs, editors, <<>>, <<"warn: not found">>, <<>>),
                 r, inflight (-) SetToBag({r}))

\* the files of the workspace edits
A == FileUrl("a.rs")
B == FileUrl("b.rs")

\* edit lists: one edit, two edits, two edits the second of which ends
\* beyond the file
OneEdit == <<TextEdit(0, 1, <<"o">>)>>
TwoEdits == <<TextEdit(0, 0, <<"f">>), TextEdit(1, 2, <<"o">>)>>
BadEdits == <<TextEdit(0, 0, <<"f">>), TextEdit(1, 99, <<"o">>)>>

\* a map of one or two files
One(url, edits) == insert(<<>>, url, edits)
Two(edits, other) == insert(One(A, edits), B, other)

\* a TextDocumentEdit of the edits, every other one annotated
Document(url, edits) ==
    TextDocumentEdit(url, [i \in 1..Len(edits) |->
                            IF i % 2 = 1 THEN Left(edits[i]) ELSE Right(edits[i])])

\* the code actions the language server proposes
CodeActions ==
    {Command,
     CodeAction(WorkspaceEdit(NoChanges, NoDocumentChanges)),
     CodeAction(WorkspaceEdit(Changes(One(A, OneEdit)), NoDocumentChanges)),
     CodeAction(WorkspaceEdit(Changes(One(A, BadEdits)), NoDocumentChanges)),
     CodeAction(WorkspaceEdit(Changes(One(WebUrl("a.rs"), OneEdit)), NoDocumentChanges)),
     CodeAction(WorkspaceEdit(Changes(Two(TwoEdits, OneEdit)), NoDocumentChanges)),
     CodeAction(WorkspaceEdit(Changes(Two(OneEdit, TwoEdits)), NoDocumentChanges)),
     CodeAction(WorkspaceEdit(Changes(Two(OneEdit, BadEdits)), NoDocumentChanges)),
     CodeAction(WorkspaceEdit(NoChanges,
        [kind |-> "Edits",
         list |-> <<Document(A, TwoEdits), Document(B, OneEdit)>>])),
     CodeAction(WorkspaceEdit(NoChanges,
        [kind |-> "Operations",
         list |-> <<Op("Create"), Edit(Document(A, TwoEdits)), Op("Rename"),
                    Edit(Document(B, OneEdit))>>])),
     CodeAction(WorkspaceEdit(NoChanges,
        [kind |-> "Operations",
         list |-> <<Edit(Document(A, <<TextEdit(0, 0, <<"f">>)>>)), Op("Delete"),
                    Edit(Document(A, <<TextEdit(1, 2, <<"o">>)>>))>>]))}

\* two editors on the loaded file a.rs, their cursors anywhere in it; b.rs is
\* not open
InitCodeAction ==
    /\ docs = [p \in Paths |->
                IF p = "a.rs"
                THEN [NewDocument(p, TRUE) EXCEPT !.text = <<"a", "b">>]
                ELSE NewDocument(p, FALSE)]
    /\ \E at \in [Views -> Offsets(<<"a", "b">>)] :
            editors = [v \in Views |->
                        [NewEditor("a.rs") EXCEPT !.cursor.start = at[v],
                                                  !.cursor.end = at[v]]]
    /\ active = 1
    /\ completion = NewCompletion
    /\ hover = NewHover
    /\ inflight = EmptyBag
    /\ threads = NoThreads
    /\ history = [completion |-> NoHistory, hover |-> NoHistory]
    /\ last = NewLast
    /\ call = NoCall

NextCodeAction ==
    \/ \E action \in CodeActions :
        \E order \in Orders(workspace_edits(action.edit).map) :
            RunCodeAction(action, order)
    \/ \E r \in BagToSet(inflight) : OpenNotification(r)
    \/ \E r \in BagToSet(inflight) : OpenFailed(r)
    \/ \E v \in Views : FocusView(v)

SpecCodeAction == InitCodeAction /\ [][NextCodeAction]_vars

(* ---------- SpecLocation: a pending location and its offset ----------- *)

\* Option<P> of an EditorLocation<P>: none, a raw offset (usize), or a
\* protocol position (line and UTF-16 character)
NoneAt == [kind |-> "None", offset |-> 0, position |-> Position(0, 0)]
OffsetAt(offset) == [kind |-> "usize", offset |-> offset, position |-> Position(0, 0)]
PositionAt(position) == [kind |-> "Position", offset |-> 0, position |-> position]

\* EditorLocation<P>: path, position, scroll offset, history tag
Location(path, position, scroll_offset, tag) ==
    [path |-> path, position |-> position, scroll_offset |-> scroll_offset,
     history |-> tag]

\* the UTF-16 code units of a character: W stands for one outside the basic
\* plane
utf16(ch) == IF ch = "W" THEN 2 ELSE 1

RECURSIVE offset_in_line(_, _, _)
\* the offset, from offset i on, that lies character code units further on
\* in the line, none when the line ends before or the units end inside a
\* character
offset_in_line(text, i, character) ==
    IF character = 0 THEN i
    ELSE IF i >= Len(text) \/ text[i + 1] = "\n" THEN NoPosition
    ELSE IF utf16(text[i + 1]) > character THEN NoPosition
    ELSE offset_in_line(text, i + 1, character - utf16(text[i + 1]))

RECURSIVE offset_of_line(_, _, _)
\* the offset at which the line starts, counting lines from offset i on, none
\* when the text has no such line
offset_of_line(text, i, line) ==
    IF line = 0 THEN i
    ELSE IF i >= Len(text) THEN NoPosition
    ELSE offset_of_line(text, i + 1, IF text[i + 1] = "\n" THEN line - 1 ELSE line)

\* Buffer::offset_of_position: the offset of a protocol position, none when
\* the position is out of range or not representable
offset_of_lsp_position(text, position) ==
    IF offset_of_line(text, 0, position.line) = NoPosition THEN NoPosition
    ELSE offset_in_line(text, offset_of_line(text, 0, position.line),
                        position.character)

\* EditorPosition::to_utf8_offset, of usize and of Position
to_utf8_offset(p, text) ==
    IF p.kind = "usize" THEN p.offset
    ELSE offset_of_lsp_position(text, p.position)

\* into_utf8_location had it taken the start of the buffer for a position
\* without an offset
into_utf8_location_or_start(location, text) ==
    Location(location.path,
             IF location.position.kind = "None" THEN NoPosition
             ELSE IF to_utf8_offset(location.position, text) = NoPosition THEN 0
             ELSE to_utf8_offset(location.position, text),
             location.scroll_offset, location.history)

\* EditorLocation::into_utf8_location
into_utf8_location(location, text) ==
    Location(location.path,
             IF location.position.kind = "None" THEN NoPosition
             ELSE to_utf8_offset(location.position, text),
             location.scroll_offset, location.history)

\* the contents of the buffer a location is resolved in
LocationTexts ==
    {<<>>, <<"a">>, <<"W", "a">>, <<"a", "\n", "b">>, <<"a", "W", "\n">>}

\* the pending locations: any path, no position, a raw offset or a protocol
\* position, with or without scroll offset and history tag
Locations ==
    {Location(path, position, scroll_offset, tag) :
        path \in Paths,
        position \in {NoneAt} \cup {OffsetAt(n) : n \in 0..4}
                        \cup {PositionAt(Position(l, c)) : l \in 0..2, c \in 0..3},
        scroll_offset \in {"none", "top"},
        tag \in {"none", "jump"}}

\* the caller resolves a pending location in the buffer
IntoUtf8Location ==
    /\ call.pc = "called"
    /\ call.fn = "into_utf8_location"
    /\ call' = [call EXCEPT
                  !.pc = "returned",
                  !.result = into_utf8_location(call.location, call.text)]
    /\ UNCHANGED <<docs, editors, active, completion, hover, inflight, threads,
                   history, last>>

\* a call with any pending location and any buffer
InitLocation ==
    /\ docs = [p \in Paths |-> NewDocument(p, TRUE)]
    /\ editors = [v \in Views |-> NewEditor(IF v = 1 THEN "a.rs" ELSE "b.rs")]
    /\ active = 1
    /\ completion = NewCompletion
    /\ hover = NewHover
    /\ inflight = EmptyBag
    /\ threads = NoThreads
    /\ history = [completion |-> NoHistory, hover |-> NoHistory]
    /\ last = NewLast
    /\ \E location \in Locations, text \in LocationTexts :
            call = [pc |-> "called", fn |-> "into_utf8_location",
                    location |-> location, text |-> text,
                    result |-> Location("", NoPosition, "none", "none")]

NextLocation == IntoUtf8Location

SpecLocation == InitLocation /\ [][NextLocation]_vars

(* ------------- SpecRequest: the request ids of the sessions ----------- *)

\* the first editor in Insert mode on the loaded file a.rs, no session live
InitRequest ==
    /\ docs = [p \in Paths |->
                [NewDocument(p, TRUE) EXCEPT
                    !.text = IF p = "a.rs" THEN PointerContent ELSE <<>>]]
    /\ editors = [v \in Views |->
                    [NewEditor(IF v = 1 THEN "a.rs" ELSE "b.rs")
                        EXCEPT !.cursor.mode = "Insert"]]
    /\ active = 1
    /\ completion = NewCompletion
    /\ hover = NewHover
    /\ inflight = EmptyBag
    /\ threads = NoThreads
    /\ history = [completion |-> NoHistory, hover |-> NoHistory]
    /\ last = NewLast
    /\ call = NoCall

\* keystrokes, moves, the completion list and its commands, the pointer over
\* the first and the last word of the text; a command that may send a request
\* comes when the proxy has answered the requests before it, and a move when
\* a session is live
NextRequest ==
    \/ inflight = EmptyBag /\ ReceiveChar("a", {})
    \/ /\ completion.status # "Inactive" \/ hover.status # "Inactive"
       /\ RunMoveCommand("Left")
    \/ inflight = EmptyBag /\ GetCompletion({})
    \/ \E r \in BagToSet(inflight) : UpdateCompletion(r)
    \/ InBuffer /\ ListSelect(Item(<<"a">>, FALSE))
    \/ inflight = EmptyBag /\ \E o \in {0, Len(Doc.text)} : UpdateHover(o, {})
    \/ \E r \in BagToSet(inflight) : UpdateHoverItems(r)

SpecRequest == InitRequest /\ [][NextRequest]_vars

(* -------------- SpecTabStop: walking the tab stops to the end --------- *)

\* the text of the snippet ($1$2$0): three empty stops at one offset
EmptyStops == <<"(", "$", "1", "$", "2", "$", "0", ")">>

\* the snippets the language server proposes at offset: stops apart, stops
\* that touch, stops at one offset
TabStopItems(offset) ==
    {SnippetItem(FooSnippet, offset), SnippetItem(ThreeStops, offset),
     SnippetItem(EmptyStops, offset)}

\* from here on the user does nothing but ask for the next tab stop
Tabbing(jumps) == [pc |-> "tabs", jumps |-> jumps]

StartTabbing ==
    /\ call = NoCall
    /\ Editor.snippet.some
    /\ call' = Tabbing(0)
    /\ UNCHANGED <<docs, editors, active, completion, hover, inflight, threads,
                   history, last>>

\* run_focus_command, FocusCommand::JumpToNextSnippetPlaceholder, counted;
\* no more of them than the set has stops
NextTabStop ==
    /\ call.pc = "tabs"
    /\ Editor.snippet.some
    /\ call.jumps < Len(Editor.snippet.tabs)
    /\ HandledCall("JumpToNextSnippetPlaceholder", docs,
                   [editors EXCEPT
                      ![active] = jump_to_next_snippet_placeholder(Editor)],
                   Outcome(cancel(completion), <<>>, "snippet"),
                   HoverUntouched(hover), NoRequest, inflight, <<>>,
                   Tabbing(call.jumps + 1))

\* the user picks a snippet while no placeholders are live, deletes, moves
\* and walks the stops in both directions; then asks for the next tab stop
\* and nothing else
NextTabStops ==
    \/ \E item \in TabStopItems(cursor_offset(Editor.cursor)) :
            /\ call = NoCall
            /\ InBuffer
            /\ ~Editor.snippet.some
            /\ ListSelect(item)
    \/ call = NoCall /\ InBuffer /\ RunEditCommand("DeleteBackward", {})
    \/ \E m \in {"Left", "Right"} : call = NoCall /\ RunMoveCommand(m)
    \/ call = NoCall /\ JumpToNextSnippetPlaceholder
    \/ call = NoCall /\ JumpToPrevSnippetPlaceholder
    \/ StartTabbing
    \/ NextTabStop

SpecTabStop == InitSnippet /\ [][NextTabStops]_vars

(* ---------- SpecInactive: the cursors of the views not acting --------- *)

\* the deltas of an edit: an insertion, a deletion, a replacement, and an
\* insertion with a replacement to its right
InactiveDeltas ==
    {Delta(0, 0, 1), Delta(0, 1, 0), Delta(1, 2, 1),
     [Delta(0, 0, 1) EXCEPT !.more = <<Delta(1, 2, 0)>>]}

\* apply_deltas calls inactive_apply_delta with the delta of the edit
InactiveApplyDelta ==
    /\ call.pc = "called"
    /\ call.fn = "inactive_apply_delta"
    /\ editors' = inactive_apply_delta(editors, active, call.delta)
    /\ call' = [call EXCEPT !.pc = "returned"]
    /\ UNCHANGED <<docs, active, completion, hover, inflight, threads, history,
                   last>>

\* either view acting, each on either file with its cursor anywhere, and any
\* of the deltas
InitInactive ==
    /\ docs = [p \in Paths |-> [NewDocument(p, TRUE) EXCEPT !.text = JumpContent]]
    /\ \E content \in [Views -> Paths], at \in [Views -> Offsets(JumpContent)] :
            editors = [v \in Views |->
                        [NewEditor(content[v]) EXCEPT
                            !.cursor.start = at[v], !.cursor.end = at[v]]]
    /\ active \in Views
    /\ completion = NewCompletion
    /\ hover = NewHover
    /\ inflight = EmptyBag
    /\ threads = NoThreads
    /\ history = [completion |-> NoHistory, hover |-> NoHistory]
    /\ last = NewLast
    /\ \E delta \in InactiveDeltas :
            call = [pc |-> "called", fn |-> "inactive_apply_delta", delta |-> delta]

NextInactive == InactiveApplyDelta

SpecInactive == InitInactive /\ [][NextInactive]_vars

(* ------------- the history of a view of a buffer that is no file --------- *)

\* BufferContent::Scratch: a buffer of the tab that has no file behind it
Scratch == "scratch"

\* the first view shows a.rs, the second a scratch buffer; both are loaded
InitScratch ==
    /\ docs = [p \in Paths \cup {Scratch} |->
                 [NewDocument(p, TRUE) EXCEPT !.text = JumpContent]]
    /\ editors = [v \in Views |-> NewEditor(IF v = 1 THEN "a.rs" ELSE Scratch)]
    /\ active \in Views
    /\ completion = NewCompletion
    /\ hover = NewHover
    /\ inflight = EmptyBag
    /\ threads = NoThreads
    /\ history = [completion |-> NoHistory, hover |-> NoHistory]
    /\ last = NewLast
    /\ call = NoCall

NextScratch ==
    \/ \E v \in Views : FocusView(v)
    \/ \E m \in {"Left", "Right"} : RunMoveCommand(m)
    \/ \E m \in {"DocumentStart", "DocumentEnd"} :
            Len(Editor.locations) < MaxLocations /\ RunMoveCommand(m)
    \/ JumpLocationBackward
    \/ JumpLocationForward

SpecScratch == InitScratch /\ [][NextScratch]_vars

(* ------------- next_diff: the list it hands to the helper --------------- *)

\* DiffLines: Left(_), Right(r), Both(_, r), Skip(_, r), with r.start
DiffLines(kind, start) == [kind |-> kind, start |-> start]

\* no document of the path is open, or it has no history "head"
NoChangeHistory == [some |-> FALSE, changes |-> <<>>]

\* doc.get_history("head"), history.changes()
ChangeHistory(changes) == [some |-> TRUE, changes |-> changes]

\* next_diff had it left the positions of a file without hunks empty
positions_as_found(positions) == positions

\* next_diff: if positions.is_empty() { positions.push(0) }
positions_or_start(positions) ==
    IF positions = <<>> THEN <<0>> ELSE positions_as_found(positions)

RECURSIVE hunk_starts(_, _, _)
\* next_diff, the loop over history.changes() from change i on
hunk_starts(text, changes, i) ==
    IF i > Len(changes) THEN <<>>
    ELSE LET change == changes[i]
             next == IF i < Len(changes) THEN <<changes[i + 1]>> ELSE <<>>
             here == CASE change.kind = "Left" ->
                            IF next # <<>> /\ next[1].kind \in {"Both", "Skip"}
                            THEN <<offset_of_line(text, 0, next[1].start)>>
                            ELSE <<>>
                       [] change.kind = "Right" ->
                            <<offset_of_line(text, 0, change.start)>>
                       [] OTHER -> <<>>
         IN  here \o hunk_starts(text, changes, i + 1)

RECURSIVE sort(_)
\* diff_files.sort(): by path, the paths of the list being distinct
sort(diff_files) ==
    IF diff_files = <<>> THEN <<>>
    ELSE LET least == CHOOSE i \in 1..Len(diff_files) :
                        \A j \in 1..Len(diff_files) :
                            path_index(diff_files[i].path)
                                <= path_index(diff_files[j].path)
         IN  <<diff_files[least]>>
                 \o sort(SubSeq(diff_files, 1, least - 1)
                            \o SubSeq(diff_files, least + 1, Len(diff_files)))

\* next_diff, the map over source_control.file_diffs and the sort
diff_files(text, file_diffs) ==
    sort([i \in 1..Len(file_diffs) |->
            [path |-> file_diffs[i].path,
             offsets |-> positions_or_start(
                            IF file_diffs[i].history.some
                            THEN hunk_starts(text, file_diffs[i].history.changes, 1)
                            ELSE <<>>)]])

\* next_in_file_diff_offset indexes file_diffs[0] and offsets[0]
indexable(files) ==
    files # <<>> /\ \A i \in 1..Len(files) : files[i].offsets # <<>>

\* next_diff: nothing happens in a buffer that is no file or without changed
\* files; else the helper is called and its result is the location jumped to
NextDiff ==
    /\ call.pc = "called"
    /\ call.fn = "next_diff"
    /\ call' = IF ~is_file(call.content) \/ call.file_diffs = <<>>
               THEN [call EXCEPT !.pc = "returned"]
               ELSE LET files == diff_files(call.text, call.file_diffs)
                    IN  [call EXCEPT
                           !.pc = "returned",
                           !.helper = TRUE,
                           !.files = files,
                           !.panicked = ~indexable(files),
                           !.result = IF indexable(files)
                                      THEN next_in_file_diff_offset(
                                               call.offset, call.path, files)
                                      ELSE @]
    /\ UNCHANGED <<docs, editors, active, completion, hover, inflight, threads,
                   history, last>>

\* the text of the buffer next_diff runs in: two lines
DiffText == <<"a", "\n", "b">>

\* the changes of a file against its head
ChangeHistories ==
    {NoChangeHistory,
     ChangeHistory(<<>>),
     ChangeHistory(<<DiffLines("Both", 0)>>),
     ChangeHistory(<<DiffLines("Right", 0), DiffLines("Both", 1)>>),
     ChangeHistory(<<DiffLines("Both", 0), DiffLines("Left", 0),
                     DiffLines("Right", 1)>>),
     ChangeHistory(<<DiffLines("Skip", 0), DiffLines("Left", 0),
                     DiffLines("Both", 1)>>),
     ChangeHistory(<<DiffLines("Both", 0), DiffLines("Left", 0)>>)}

\* source_control.file_diffs: up to two changed files in any order
ChangedFiles ==
    {<<>>}
    \cup {<<[path |-> Ordered[i], history |-> h]>> :
            i \in 1..Len(Ordered), h \in ChangeHistories}
    \cup {<<[path |-> Ordered[ij[1]], history |-> h],
            [path |-> Ordered[ij[2]], history |-> g]>> :
            ij \in {p \in (1..Len(Ordered)) \X (1..Len(Ordered)) : p[1] # p[2]},
            h \in ChangeHistories, g \in ChangeHistories}

\* a call of next_diff in any buffer, or a call of a helper with any list
InitDiff ==
    \/ InitNext
    \/ /\ docs = [p \in Paths |-> NewDocument(p, TRUE)]
       /\ editors = [v \in Views |-> NewEditor(IF v = 1 THEN "a.rs" ELSE "b.rs")]
       /\ active = 1
       /\ completion = NewCompletion
       /\ hover = NewHover
       /\ inflight = EmptyBag
       /\ threads = NoThreads
       /\ history = [completion |-> NoHistory, hover |-> NoHistory]
       /\ last = NewLast
       /\ \E offset \in 0..MaxOffset, content \in {"a.rs", "b.rs", Scratch},
             file_diffs \in ChangedFiles :
            call = [pc |-> "called", fn |-> "next_diff", offset |-> offset,
                    content |-> content, path |-> content, text |-> DiffText,
                    file_diffs |-> file_diffs, helper |-> FALSE,
                    files |-> <<>>, panicked |-> FALSE,
                    result |-> Found("", 0)]

NextDiffs ==
    \/ NextDiff
    \/ NextInFileDiffOffset
    \/ NextInFileErrorsOffset

SpecDiff == InitDiff /\ [][NextDiffs]_vars

(* ------------------- what a step did, read off the states ------------- *)

\* the requests a step handed to the proxy
Sent == inflight' (-) inflight

\* the step answered request r
Answered(r) == r \in BagToSet(inflight) /\ inflight' = inflight (-) SetToBag({r})

\* the word at the cursor the step leaves, its anchor and the character before
Anchor == prev_code_boundary(Doc'.text, cursor_offset(Editor'.cursor))
Word ==
    slice_to_cow(Doc'.text, Anchor,
                 next_code_boundary(Doc'.text, cursor_offset(Editor'.cursor)))
Char == IF Anchor = 0 THEN <<>> ELSE slice_to_cow(Doc'.text, Anchor - 1, Anchor)

\* the step was a handler that runs update_completion
Ran == last'.op \in {"receive_char", "run_edit_command", "GetCompletion"}

\* update_completion got past its early returns
Guarded ==
    /\ Editor'.cursor.mode = "Insert"
    /\ Doc'.loaded
    /\ is_file(Editor'.content)
    /\ \/ last'.op = "GetCompletion"
       \/ Word # <<>>
       \/ Char \in {<<".">>, <<":">>}

\* the session the step met is live at the anchor and buffer the step leaves
Live ==
    /\ completion.status # "Inactive"
    /\ completion.offset = Anchor
    /\ completion.buffer_id = Doc'.id

\* the step kept the session: only its input changed
Kept == completion' = [completion EXCEPT !.input = Word]

\* the step started a new session
Started ==
    completion' = [status |-> "Started", offset |-> Anchor, buffer_id |-> Doc'.id,
                   input |-> Word, input_items |-> <<>>,
                   request_id |-> completion.request_id + 1]

(* ------------------------------- claims ------------------------------- *)

\* C1: a completion response whose request id is not the session's current
\* request id, or whose request was issued before the session's latest reset,
\* leaves the session exactly as it was (status, anchor, buffer, input, cache
\* and request id).
C1_StaleResponseDiscarded ==
    [][\A r \in BagToSet(inflight) :
        (/\ Answered(r)
         /\ r.msg.kind = "completion"
         /\ \/ r.msg.request_id # completion.request_id
            \/ r.resets < history.completion.resets)
        => completion' = completion]_vars

\* C1, its case: a response with an old request id was handled while the
\* session was live
C1_StaleResponseMetLiveSession ==
    /\ last.op = "UpdateCompletion"
    /\ last.stale
    /\ completion.status # "Inactive"

C4_AtMostTwoUncached ==
    [][Ran =>
        /\ BagCardinality(Sent) <= 2
        /\ \A m \in BagToSet(Sent) :
            /\ \/ m.msg.input = <<>> /\ m.msg.position = Anchor
               \/ m.msg.input = Word
                  /\ m.msg.position = cursor_offset(Editor'.cursor)
            /\ Live => m.msg.input \notin DOMAIN completion.input_items]_vars

\* C4, its case: a kept session with a cached key sent the one request for
\* the key it lacked
C4_OneKeyCachedOneRequested ==
    /\ last.branch = "reuse"
    /\ last.sent = 1
    /\ DOMAIN completion.input_items # {}

\* C5: after run_move_command the completion session and the hover session
\* are both Inactive, whatever they were before.
C5_MoveCancelsBoth ==
    last.op = "run_move_command"
        => completion.status = "Inactive" /\ hover.status = "Inactive"

\* C5, its case: a cursor movement met both sessions live
C5_MoveMetBothLive ==
    /\ last.op = "run_move_command"
    /\ last.met.completion
    /\ last.met.hover

\* C6: the response to a request issued before its session was cancelled
\* leaves the session exactly as it is: it neither makes the session Active
\* again nor stores its result.
C6_CancelledStaysCancelled ==
    [][\A r \in BagToSet(inflight) :
        (Answered(r) /\ r.cancels < history[r.msg.kind].cancels)
        => /\ r.msg.kind = "completion" => completion' = completion
           /\ r.msg.kind = "hover" => hover' = hover]_vars

\* C6, its case: a completion response arrived after its session was
\* cancelled, carrying the session's latest request id
C6_LateResponseWithLatestId ==
    /\ last.op = "UpdateCompletion"
    /\ last.cancelled
    /\ ~last.stale

\* C7: the result of a background request (code actions, completion resolve,
\* document formatting) carries the revision the buffer had when the request
\* was issued, and when an edit was committed since, the result leaves the
\* documents, the editors and the sessions as they are.
C7_ResultAppliedOnlyIfCurrent ==
    [][\A r \in BagToSet(inflight) :
        (Answered(r) /\ r.msg.kind \in Background)
        => /\ r.msg.rev = r.rev
           /\ docs[r.msg.path].rev # r.rev
                => UNCHANGED <<docs, editors, completion, hover>>]_vars

\* C7, its case: the resolved completion item came back after an edit
C7_StaleResolveDiscarded ==
    /\ last.op = "ResolveCompletion"
    /\ last.stale

\* the save of thread t has ended with its one command
Ended(t) == threads[t].pc = "done" /\ Len(threads[t].commands) = 1

\* C8 as stated: every save of a non-pristine file ends with exactly one
\* command submitted, and when the formatting timed out or failed that command
\* carries an error result.
C8_OneCommandWithErrorResult ==
    /\ [](\A t \in Threads :
            /\ Len(threads[t].commands) <= 1
            /\ threads[t].pc = "done" => Len(threads[t].commands) = 1
            /\ (Len(threads[t].commands) = 1 /\ threads[t].result # "edits")
                => /\ "result" \in DOMAIN threads[t].commands[1]
                   /\ threads[t].commands[1].result # "edits")
    /\ \A t \in Threads : (threads[t].pc # "idle") ~> Ended(t)

\* C8 amended: every save of a non-pristine file ends with exactly one command
\* submitted, whatever the proxy does; with format_on_save the command is
\* DocumentFormatAndSave for the revision captured by save, carrying the edits
\* that came in time and an error otherwise; without format_on_save it is a
\* plain DocumentSave that carries no result.
C8_OneCommandPerSave ==
    /\ [](\A t \in Threads :
            /\ Len(threads[t].commands) <= 1
            /\ threads[t].pc = "done" => Len(threads[t].commands) = 1
            /\ Len(threads[t].commands) = 1
                => IF threads[t].format_on_save
                   THEN /\ threads[t].commands[1].kind = "DocumentFormatAndSave"
                        /\ threads[t].commands[1].rev = threads[t].rev
                        /\ threads[t].commands[1].result = threads[t].result
                        /\ threads[t].result \in {"edits", "error", "timeout"}
                   ELSE threads[t].commands[1]
                            = [kind |-> "DocumentSave", path |-> threads[t].path,
                               exit |-> threads[t].exit])
    /\ \A t \in Threads : (threads[t].pc # "idle") ~> Ended(t)

\* C8, its case: the formatting response came after the thread had given up
\* waiting and submitted its command
C8_LateResponseAfterTimeout ==
    \E t \in Threads :
        /\ Ended(t)
        /\ threads[t].result = "timeout"
        /\ threads[t].callback = "answered"

\* C9 as stated: after N backward jumps that moved and N forward jumps right
\* after them the cursor is where it was before the first backward jump.
C9_BackThenForthReturns ==
    (last.run.back >= 1 /\ last.run.forth = last.run.back)
        => cursor_offset(Editor.cursor) = last.run.origin

\* C9 amended: the same, for a run whose first backward jump starts at the head
\* of the history or with the cursor on the entry the index points at.
C9_AnchoredBackThenForthReturns ==
    (last.run.back >= 1 /\ last.run.forth = last.run.back /\ last.run.anchored)
        => cursor_offset(Editor.cursor) = last.run.origin

\* C9, its case: two backward jumps from the head, then two forward jumps
C9_TwoBackTwoForth ==
    /\ last.op = "jump_location_forward"
    /\ last.run.back = 2
    /\ last.run.forth = 2
    /\ last.run.pushed = 1

\* C10: a forward jump moves the index by one and goes to the entry there
\* while the index is below length - 1 and does nothing otherwise; a backward
\* jump does nothing at index 0, pushes the cursor's position when it starts at
\* the head and pushes nothing when it does not, so that a run of backward
\* jumps pushes at most once.
C10_JumpsWithinHistory ==
    [][/\ last'.op = "jump_location_forward"
          => IF /\ Editor.locations # <<>>
                /\ Editor.current_location < Len(Editor.locations) - 1
             THEN /\ Editor'.current_location = Editor.current_location + 1
                  /\ Editor'.locations = Editor.locations
                  /\ last'.sent = 1
                  /\ cursor_offset(Editor'.cursor)
                        = Editor.locations[Editor.current_location + 2].position
             ELSE Editor' = Editor /\ last'.sent = 0
       /\ last'.op = "jump_location_backward"
          => /\ Editor.current_location = 0
                => Editor' = Editor /\ last'.sent = 0
             /\ (/\ Editor.current_location >= 1
                 /\ Editor.current_location >= Len(Editor.locations))
                => Editor'.locations
                    = Append(Editor.locations,
                             EditorLocation(Editor.content,
                                            cursor_offset(Editor.cursor)))
             /\ (/\ Editor.current_location >= 1
                 /\ Editor.current_location < Len(Editor.locations))
                => Editor'.locations = Editor.locations
             /\ last'.run.pushed <= 1
             /\ last'.run.back >= 2 => Editor'.locations = Editor.locations]_vars

\* C10, its case: a backward jump from the head pushed, the next pushed nothing
C10_PushedOnceThenNothing ==
    /\ last.op = "jump_location_backward"
    /\ last.run.back = 2
    /\ last.run.pushed = 1

\* C11: a move command pushes the location the cursor had before the move
\* onto the jump history exactly when its movement is a jump movement other
\* than the movement recorded last, and pushes nothing otherwise; every move
\* command records its movement as the last one.
C11_JumpPushedUnlessRepeated ==
    [][last'.op = "run_move_command"
        => /\ Editor'.last_movement_new = last'.branch
           /\ IF /\ last'.branch \in {"DocumentStart", "DocumentEnd"}
                 /\ last'.branch # Editor.last_movement_new
              THEN /\ Editor'.locations
                        = Append(Editor.locations,
                                 EditorLocation(Editor.content,
                                                cursor_offset(Editor.cursor)))
                   /\ Editor'.current_location = Len(Editor.locations) + 1
              ELSE /\ Editor'.locations = Editor.locations
                   /\ Editor'.current_location = Editor.current_location]_vars

\* C11, its case: the same jump pushed again after a different movement, and
\* pushed the offset the cursor had before it moved
C11_SameJumpPushedAgain ==
    /\ last.op = "run_move_command"
    /\ last.branch = "DocumentStart"
    /\ Len(Editor.locations) = 3
    /\ Editor.locations[1].position = 0
    /\ Editor.locations[3].position = 1
    /\ cursor_offset(Editor.cursor) = 0

\* the call under way has returned from the function named
Returned(fn) == call.pc = "returned" /\ call.fn = fn

\* the file of the list at the current path, the files at a greater path
Current == {i \in 1..Len(call.files) : call.files[i].path = call.path}
Later ==
    {i \in 1..Len(call.files) :
        path_index(call.files[i].path) > path_index(call.path)}

\* the least number of a non-empty set of numbers
Least(S) == CHOOSE n \in S : \A m \in S : n <= m

\* the hunk starts of the current file that lie after the cursor
HunksAfter(i) ==
    {j \in 1..Len(call.files[i].offsets) : call.files[i].offsets[j] > call.offset}

\* the files of the example: a.rs -> [10, 50], b.rs -> [5]
Example ==
    <<[path |-> "a.rs", offsets |-> <<10, 50>>],
      [path |-> "b.rs", offsets |-> <<5>>]>>

\* C12: for a sorted non-empty list of files with non-empty ascending offset
\* lists, next_in_file_diff_offset returns the first listed offset of the
\* current file after the cursor; failing that, the first offset of the first
\* file at a greater path; failing that, the first offset of the first file;
\* and the three results of the example with a.rs -> [10, 50], b.rs -> [5].
C12_NextDiffInFileThenNextFile ==
    /\ Returned("next_in_file_diff_offset")
        => IF \E i \in Current : HunksAfter(i) # {}
           THEN \E i \in Current :
                    call.result
                        = Found(call.path,
                                call.files[i].offsets[Least(HunksAfter(i))])
           ELSE IF Later # {}
           THEN call.result = Found(call.files[Least(Later)].path,
                                    call.files[Least(Later)].offsets[1])
           ELSE call.result = Found(call.files[1].path, call.files[1].offsets[1])
    /\ next_in_file_diff_offset(10, "a.rs", Example) = Found("a.rs", 50)
    /\ next_in_file_diff_offset(50, "a.rs", Example) = Found("b.rs", 5)
    /\ next_in_file_diff_offset(5, "b.rs", Example) = Found("a.rs", 10)

\* C12, its case: the cursor is past the last hunk of the last file listed and
\* the result wraps around to the first hunk of the first file
C12_WrappedAround ==
    /\ Returned("next_in_file_diff_offset")
    /\ Len(call.files) = 3
    /\ call.path = "c.rs"
    /\ call.offset = 2
    /\ call.result = Found("a.rs", 1)

\* the diagnostics of the current file that lie after the cursor: on a later
\* line, or on the same line at a greater character
ErrorsAfter(i) ==
    {j \in 1..Len(call.files[i].positions) :
        \/ call.files[i].positions[j].line > call.offset.line
        \/ /\ call.files[i].positions[j].line = call.offset.line
           /\ call.files[i].positions[j].character > call.offset.character}

\* C13: next_in_file_errors_offset returns the first listed diagnostic of the
\* current file after the cursor (later line, or same line and greater
\* character, never the cursor's own position); failing that, the first
\* diagnostic of the first file at a greater path; failing that, the first
\* diagnostic of the first file.
C13_NextErrorInFileThenNextFile ==
    Returned("next_in_file_errors_offset")
        => IF \E i \in Current : ErrorsAfter(i) # {}
           THEN \E i \in Current :
                    /\ call.result
                        = Found(call.path,
                                call.files[i].positions[Least(ErrorsAfter(i))])
                    /\ call.result.at # call.offset
           ELSE IF Later # {}
           THEN call.result = Found(call.files[Least(Later)].path,
                                    call.files[Least(Later)].positions[1])
           ELSE call.result
                    = Found(call.files[1].path, call.files[1].positions[1])

\* C13, its case: a diagnostic sits at the cursor's own position and the one
\* after it on the same line is returned
C13_SkippedOwnPosition ==
    /\ Returned("next_in_file_errors_offset")
    /\ \E i \in Current : \E j \in 1..Len(call.files[i].positions) :
            call.files[i].positions[j] = call.offset
    /\ call.result.path = call.path
    /\ call.result.at.line = call.offset.line
    /\ call.result.at.character > call.offset.character

(* ------------------ snippets and their placeholders ------------------- *)

\* the text foo(a, b) the snippet foo(${1:a}, ${2:b}) inserts
FooText == <<"f", "o", "o", "(", "a", ",", " ", "b", ")">>

\* an Insert selection of one region
InsertRegion(start, end) == [mode |-> "Insert", start |-> start, end |-> end]

\* the step applied the foo snippet to the empty file
FooApplied == last'.op = "ListSelect" /\ Doc.text = <<>> /\ Doc'.text = FooText

\* the step is the first next-tab-stop command after the foo snippet
FooFirstNext ==
    /\ last'.op = "JumpToNextSnippetPlaceholder"
    /\ last.op = "ListSelect"
    /\ Doc.text = FooText

\* the step is a further next-tab-stop command after the first
FooFurtherNext ==
    /\ last'.op = "JumpToNextSnippetPlaceholder"
    /\ last.op = "JumpToNextSnippetPlaceholder"
    /\ Doc.text = FooText

Holding ==
    {i \in 1..Len(Editor.snippet.tabs) :
        /\ Editor.snippet.tabs[i].start <= cursor_offset(Editor.cursor)
        /\ cursor_offset(Editor.cursor) <= Editor.snippet.tabs[i].end}

\* the stop a tab-stop command takes as current
CurrentStop == IF Holding = {} THEN 1 ELSE Least(Holding)

\* the Insert selection over stop i of the acting editor
OverStop(i) ==
    InsertRegion(Editor.snippet.tabs[i].start, Editor.snippet.tabs[i].end)

\* what C15 says of every tab-stop command but of the clearing of the set
TabStopMoves ==
    /\ last'.op = "JumpToNextSnippetPlaceholder"
        => /\ Editor'.cursor = IF CurrentStop < Len(Editor.snippet.tabs)
                               THEN OverStop(CurrentStop + 1)
                               ELSE Editor.cursor
           /\ Editor'.snippet.some => Editor'.snippet = Editor.snippet
    /\ last'.op = "JumpToPrevSnippetPlaceholder"
        => /\ Editor'.snippet = Editor.snippet
           /\ IF CurrentStop > 1
              THEN Editor'.cursor = OverStop(CurrentStop - 1)
              ELSE editors' = editors /\ completion' = completion

EditWithLiveSet == Len(last'.deltas) = 1 /\ Editor.snippet.some

\* where offset x lies after the delta d when it is biased left: an insertion
\* at x stays after x
BiasedLeft(d, x) ==
    IF x <= d.start THEN x ELSE d.start + d.len + Max(x - d.end, 0)

\* where offset x lies after the delta d when it is biased right: an insertion
\* at x comes before x
BiasedRight(d, x) ==
    IF x < d.start THEN x ELSE d.start + d.len + Max(x - d.end, 0)

CursorMovedOverLiveSet(v) ==
    /\ last'.op \in {"run_move_command", "receive_char", "run_edit_command",
                     "ListSelect"}
    /\ editors[v].snippet.some
    /\ cursor_offset(editors'[v].cursor) # cursor_offset(editors[v].cursor)

\* the cursor offset the step left in editor v lies in a range of its
\* placeholder set
StillInside(v) ==
    within_region(IF editors'[v].snippet.some THEN editors'[v].snippet.tabs
                  ELSE editors[v].snippet.tabs,
                  cursor_offset(editors'[v].cursor))

\* C17: after a move command or an applied edit that changed the cursor offset
\* of an editor, its placeholder set is discarded if the offset lies outside
\* every range of the set and kept if it lies inside one.
C17_SetLiveOnlyAroundCursor ==
    [][\A v \in Views :
        CursorMovedOverLiveSet(v) => (editors'[v].snippet.some <=> StillInside(v))]_vars

\* C18: the delta of an edit in the acting view remaps the cursor of every
\* other view on the same content, whatever its view id, and of no view on
\* another content; nothing else moves the cursor of a view that is not
\* acting, so that its offset is its offset before the edits taken through
\* their deltas in order.
C18_OtherViewsOfDocumentFollow ==
    [][\A v \in Views \ {active} :
        IF Len(last'.deltas) = 1
        THEN IF editors[v].content = Editor.content
             THEN editors'[v].cursor =
                    [editors[v].cursor EXCEPT
                       !.start = BiasedRight(last'.deltas[1], @),
                       !.end = BiasedRight(last'.deltas[1], @)]
             ELSE editors'[v].cursor = editors[v].cursor
        ELSE editors'[v].cursor = editors[v].cursor]_vars

\* C18, its case: the first view inserted a snippet and typed a blank before
\* the cursor of the second view of the file, which followed both edits to
\* the end of the text
C18_SecondViewFollowedTwoEdits ==
    /\ active = 1
    /\ last.op = "receive_char"
    /\ last.deltas = <<Delta(2, 2, 1)>>
    /\ editors[1].snippet.some
    /\ editors[2].content = "a.rs"
    /\ docs["a.rs"].rev = 2
    /\ cursor_offset(editors[2].cursor) = Len(docs["a.rs"].text)

\* a placeholder
Stop(tab, start, end) == [tab |-> tab, start |-> start, end |-> end]

\* the step applied a snippet completion that registered placeholders
SnippetApplied ==
    last'.op = "ListSelect" /\ ~Editor.snippet.some /\ Editor'.snippet.some

InBounds(v, x) == 0 <= x /\ x <= Len(docs[editors[v].content].text)

\* C20: after each edit the cursor of the acting editor, the cursors of the
\* other views of the document and every live placeholder have both ends
\* within the buffer.
C20_RegionsWithinBuffer ==
    Len(last.deltas) = 1
        => \A v \in Views :
            /\ InBounds(v, editors[v].cursor.start)
            /\ InBounds(v, editors[v].cursor.end)
            /\ \A i \in 1..Len(editors[v].snippet.tabs) :
                    /\ InBounds(v, editors[v].snippet.tabs[i].start)
                    /\ InBounds(v, editors[v].snippet.tabs[i].end)

(* ------------------- SpecItem: what ListSelect applies ---------------- *)

\* the word at the cursor of the acting editor
WordStart == prev_code_boundary(Doc.text, cursor_offset(Editor.cursor))
WordEnd == next_code_boundary(Doc.text, cursor_offset(Editor.cursor))

\* the span the item is to replace: the word, widened to the range of its
\* text edit if it carries one
SpanStart(item) ==
    IF item.text_edit.some THEN Min(WordStart, item.text_edit.start) ELSE WordStart
SpanEnd(item) ==
    IF item.text_edit.some THEN Max(WordEnd, item.text_edit.end) ELSE WordEnd

\* the text the item inserts
Inserted(item) ==
    IF ~item.text_edit.some THEN item.label
    ELSE IF item.insert_text_format = "Snippet"
    THEN snippet_text(from_str(item.text_edit.new_text, 1, Parsed(<<>>, <<>>)))
    ELSE item.text_edit.new_text

\* the step is ListSelect of the item, and the item was applied
Applies(item) == docs' # docs /\ ListSelect(item)

RECURSIVE Replaces(_, _, _)
\* [from, to) is one of the ranges the delta replaces
Replaces(d, from, to) ==
    \/ d.start = from /\ d.end = to
    \/ d.more # <<>> /\ Replaces(d.more[1], from, to)

\* C21: each successful application of a completion item commits one edit of
\* the buffer and yields one delta: the revision advances by one, the
\* replacement of the item and its additional edits are all made at the
\* offsets they have in the buffer before the edit, and that one delta is the
\* one the cursors of the other views and the live placeholders go through
C21_OneEditOneDelta ==
    [][\A item \in ItemChoices :
        Applies(item)
        => LET d == last'.deltas[1]
               text == Doc.text
               adds == item.additional_text_edits
           IN  /\ Len(last'.deltas) = 1
               /\ Doc'.rev = Doc.rev + 1
               /\ Doc'.text =
                    (IF adds = <<>> THEN SubSeq(text, 1, SpanStart(item))
                     ELSE SubSeq(text, 1, adds[1].start) \o adds[1].new_text
                            \o SubSeq(text, adds[1].end + 1, SpanStart(item)))
                    \o Inserted(item)
                    \o SubSeq(text, SpanEnd(item) + 1, Len(text))
               /\ \A v \in Views \ {active} :
                    editors'[v].cursor = cursor_apply_delta(editors[v].cursor, d)
               /\ (Editor.snippet.some /\ Editor'.snippet.some)
                    => Editor'.snippet.tabs =
                        [i \in 1..Len(Editor.snippet.tabs) |->
                            [tab |-> Editor.snippet.tabs[i].tab,
                             start |-> transform(d, Editor.snippet.tabs[i].start, FALSE),
                             end |-> transform(d, Editor.snippet.tabs[i].end, TRUE)]]
      ]_vars

\* C21 witness: with the cursor in the word fo, an item with an additional
\* edit at the top of the file was applied: one revision, one delta of two
\* replacements
C21_ItemWithAdditionalEditApplied ==
    /\ last.op = "ListSelect"
    /\ docs["a.rs"].text = <<"b", "a", ".", "b">>
    /\ docs["a.rs"].rev = 1
    /\ last.deltas = <<[Delta(0, 0, 1) EXCEPT !.more = <<Delta(2, 4, 1)>>]>>

\* a position of the item that is converted has no offset, or its snippet
\* does not parse
Fails(item) ==
    \/ \E i \in 1..Len(item.additional_text_edits) :
            \/ item.additional_text_edits[i].start > Len(Doc.text)
            \/ item.additional_text_edits[i].end > Len(Doc.text)
    \/ /\ item.text_edit.some
       /\ \/ item.text_edit.start > Len(Doc.text)
          \/ item.text_edit.end > Len(Doc.text)
          \/ /\ item.insert_text_format = "Snippet"
             /\ item.text_edit.new_text = Unclosed

C27_SpanCoversWordAndRange ==
    [][\A item \in ItemChoices :
        Applies(item)
        => /\ Len(last'.deltas) = 1
           /\ Replaces(last'.deltas[1], SpanStart(item), SpanEnd(item))
           /\ Len(Doc'.text) = Len(Doc.text) - (SpanEnd(item) - SpanStart(item))
                                + Len(Inserted(item))
                                + (IF item.additional_text_edits = <<>> THEN 0 ELSE 1)
      ]_vars

\* C27 witness: with the cursor in the word fo, [2, 4), an item whose text edit
\* has the range [1, 3) was applied: [1, 4) was replaced
C27_RangeWidenedWord ==
    /\ last.op = "ListSelect"
    /\ docs["a.rs"].text = <<"a", "b">>
    /\ last.deltas = <<Delta(1, 4, 1)>>

(* --------------- SpecBackground: what ListSelect does ----------------- *)

\* the step sent the proxy this one request and no other
SentOnly(msg) ==
    \E r \in BagToSet(inflight') :
        /\ r.msg = msg
        /\ inflight' = inflight (+) SetToBag({r})

\* C26: ListSelect cancels the completion session at once; an item with
\* resolve data is not applied during the command, a resolve request goes to
\* the proxy, and the answer applies the resolved item, or the original item
\* when resolving failed; an item without resolve data is applied within the
\* command
C26_AppliedNowOrOnceResolved ==
    [][/\ \A item \in Items :
            ListSelect(item)
            => /\ completion'.status = "Inactive"
               /\ item.data
                    => /\ docs' = docs
                       /\ editors' = editors
                       /\ SentOnly(background_request(
                                "resolve", Editor.content, Doc,
                                cursor_offset(Editor.cursor), item))
               /\ ~item.data
                    => /\ Doc' = apply_completion_item(Doc, Editor.cursor, item).doc
                       /\ Doc'.rev = Doc.rev + 1
                       /\ inflight' = inflight
       /\ \A r \in BagToSet(inflight), result \in {"item", "error"} :
            (ResolveCompletion(r, result) /\ docs' # docs)
            => LET item == IF result = "item" THEN resolve(r.msg.item)
                           ELSE r.msg.item
               IN  /\ Answered(r)
                   /\ Doc' = apply_completion_item(Doc, Editor.cursor, item).doc
                   /\ Len(Doc'.text) =
                        Len(Doc.text) - (WordEnd - WordStart) + Len(item.label)
                        + (IF result = "item" THEN 1 ELSE 0)
      ]_vars

\* C26 witness: the resolved item was applied, its additional edit with it
C26_ResolvedItemApplied ==
    /\ last.op = "ResolveCompletion"
    /\ docs["a.rs"].text = <<"a", "b">>
    /\ docs["a.rs"].rev = 1

(* ------------- SpecPosition, SpecPointer: early returns --------------- *)

\* C28: when update_completion runs and the cursor mode is not Insert, the
\* completion session ends Inactive and no request is sent, whatever the
\* session was; so it does when it was not asked for by GetCompletion and the
\* input (the word at the cursor of the loaded file) is empty and the
\* character before it is neither "." nor ":"
C28_EndsInactiveNothingSent ==
    [][(/\ Ran
        /\ \/ Editor'.cursor.mode # "Insert"
           \/ /\ last'.op # "GetCompletion"
              /\ Doc'.loaded
              /\ is_file(Editor'.content)
              /\ Word = <<>>
              /\ Char \notin {<<".">>, <<":">>})
        => /\ completion'.status = "Inactive"
           /\ Sent = EmptyBag
      ]_vars

\* C28 witness: the user left Insert mode while a session was live and a
\* request of it outstanding; the session is cancelled
C28_LeftInsertWithLiveSession ==
    /\ last.op = "run_edit_command"
    /\ Editor.cursor.mode = "Normal"
    /\ completion.status = "Inactive"
    /\ history.completion = [resets |-> 1, cancels |-> 1]
    /\ BagCardinality(inflight) > 0

\* update_completion starts a new session and a conversion it needs fails:
\* that of the anchor, or that of the cursor offset, asked for when the input
\* is not empty
NewSessionConversionFails(u) ==
    /\ Guarded
    /\ ~Live
    /\ \/ Anchor \in u
       \/ Word # <<>> /\ cursor_offset(Editor'.cursor) \in u

\* C29: when the conversion of the anchor or of the cursor offset fails while
\* update_completion starts a new session, the session (status, anchor, buffer
\* id, cache, request id) is as before the call and no request is sent
C29_FailedConversionAborts ==
    [][\A u \in Unconvertibles :
        (/\ \/ GetCompletion(u)
            \/ \E c \in Chars : ReceiveChar(c, u)
            \/ \E cmd \in EditCommands : RunEditCommand(cmd, u)
         /\ NewSessionConversionFails(u))
        => /\ completion' = completion
           /\ Sent = EmptyBag
      ]_vars

\* C30: when the conversion of the hover anchor fails in update_hover, no
\* request is sent and the hover session (status, anchor, buffer id, items,
\* request id) is as before the call
C30_FailedConversionLeavesHover ==
    [][\A o \in Offsets(PointerContent), u \in Unconvertibles :
        (/\ UpdateHover(o, u)
         /\ Doc.loaded
         /\ is_file(Editor.content)
         /\ slice_to_cow(Doc.text, prev_code_boundary(Doc.text, o),
                         next_code_boundary(Doc.text, o)) # <<>>
         /\ ~(/\ hover.status # "Inactive"
              /\ hover.offset = prev_code_boundary(Doc.text, o)
              /\ hover.buffer_id = Doc.id)
         /\ prev_code_boundary(Doc.text, o) \in u)
        => /\ hover' = hover
           /\ Sent = EmptyBag
      ]_vars

\* an edit of the list has a start or an end beyond the end of the text
Unresolved(doc, edits) ==
    \E i \in 1..Len(edits) :
        edits[i].start > Len(doc.text) \/ edits[i].end > Len(doc.text)

\* the edit calls of the step on the file at path
CallsOn(calls, path) == SelectSeq(calls, LAMBDA c : c.path = path)

\* the document went from before to after by all of the edits in one edit call
\* of type Other, or stayed as it was with an error logged
AllOrNothing(before, after, path, edits, step) ==
    IF Unresolved(before, edits)
    THEN /\ after = before
         /\ CallsOn(step.deltas, path) = <<>>
         /\ \E i \in 1..Len(step.log) : step.log[i] = "error: position"
    ELSE /\ after.text = replaced(before.text, edits)
         /\ after.rev = before.rev + 1
         /\ Len(CallsOn(step.deltas, path)) = 1
         /\ CallsOn(step.deltas, path)[1].edit_type = "Other"
         /\ Len(CallsOn(step.deltas, path)[1].deltas) = 1

\* the document of the file as the open-notification finds it
Opened(path) == [docs[path] EXCEPT !.loaded = TRUE, !.text = OtherContent]

\* C23: apply_code_action is all-or-nothing per file: when the start or the
\* end of one edit of the file's list has no offset, none of the file's edits
\* is applied and an error is logged; otherwise all the edits of the list are
\* applied in one edit call of edit type Other. This holds of the file of the
\* acting editor when a code action runs and of the other file when its
\* open-notification fires.
C23_AllOrNothingPerFile ==
    [][/\ \A action \in CodeActions :
            \A order \in Orders(workspace_edits(action.edit).map) :
                RunCodeAction(action, order) =>
                    \A url \in DOMAIN workspace_edits(action.edit).map :
                        url_matches_path(Editor.content, url) =>
                            AllOrNothing(Doc, docs'[Editor.content], Editor.content,
                                         workspace_edits(action.edit).map[url], last')
       /\ \A r \in BagToSet(inflight) :
            OpenNotification(r) =>
                AllOrNothing(Opened(r.msg.path), docs'[r.msg.path], r.msg.path,
                             r.msg.edits, last')]_vars

\* a code action's edits of a.rs are applied; of the edits of b.rs one ends
\* beyond the file, and when b.rs is open none of them is applied
C23_OtherFileRejectedWhole ==
    /\ last.op = "open_notification"
    /\ last.log = <<"error: position">>
    /\ last.deltas = <<>>
    /\ docs["a.rs"].text = <<"o", "b">>
    /\ docs["b.rs"].loaded
    /\ docs["b.rs"].text = OtherContent
    /\ docs["b.rs"].rev = 0

\* the requests in flight to navigate to the file at path
Navigations(bag, path) ==
    {r \in BagToSet(bag) : r.msg.kind = "navigate" /\ r.msg.path = path}

\* the step issued one request to navigate to b.rs, at the start of the first
\* edit of the list and with the list for its continuation
Deferred(edits) ==
    /\ Navigations(inflight, "b.rs") = {}
    /\ BagCardinality(inflight') = BagCardinality(inflight) + 1
    /\ \E r \in Navigations(inflight', "b.rs") :
        /\ Navigations(inflight', "b.rs") = {r}
        /\ CopiesIn(r, inflight') = 1
        /\ r.msg.position = edits[1].start
        /\ r.msg.edits = edits

\* C24: a code action whose workspace edit targets the file of the acting
\* editor and a file that is not open: the edits of the acting file are
\* applied during the call; for the other file one request to navigate to the
\* start of its first edit is issued with a continuation; the other file is
\* not edited before its open-notification fires, and when it fires the
\* continuation applies the same edit list to it, once; the order in which
\* the two files are visited makes no difference.
C24_OpenFileNowOtherOnceOpen ==
    [][/\ \A action \in CodeActions :
            \A order \in Orders(workspace_edits(action.edit).map) :
                (/\ RunCodeAction(action, order)
                 /\ Editor.content = "a.rs"
                 /\ DOMAIN workspace_edits(action.edit).map = {A, B}) =>
                    /\ AllOrNothing(Doc, docs'["a.rs"], "a.rs",
                                    workspace_edits(action.edit).map[A], last')
                    /\ docs'["b.rs"] = docs["b.rs"]
                    /\ Deferred(workspace_edits(action.edit).map[B])
                    /\ \A other \in Orders(workspace_edits(action.edit).map) :
                            RunCodeAction(action, other)
       /\ docs'["b.rs"] # docs["b.rs"] =>
            \E r \in Navigations(inflight, "b.rs") : OpenNotification(r)
       /\ \A r \in Navigations(inflight, "b.rs") :
            OpenNotification(r) =>
                /\ AllOrNothing(Opened("b.rs"), docs'["b.rs"], "b.rs", r.msg.edits, last')
                /\ Navigations(inflight', "b.rs") = {}
                /\ docs'["a.rs"] = docs["a.rs"]]_vars

\* the code action with one edit of a.rs and two of b.rs ran and the
\* open-notification of b.rs fired: both files hold their edits
C24_BothFilesEdited ==
    /\ last.op = "open_notification"
    /\ docs["a.rs"].text = <<"o", "b">>
    /\ docs["a.rs"].rev = 1
    /\ docs["b.rs"].text = <<"f", "f", "o">>
    /\ docs["b.rs"].rev = 1
    /\ inflight = EmptyBag

\* the entries of a change-operation list that are not edits
Unsupported(list) == {i \in DOMAIN list : list[i].kind # "Edit"}

\* the lines of the log that warn of an unsupported operation
Warnings(log) == {i \in DOMAIN log : log[i] = "warn: unsupported"}

\* every text edit of every edit entry of the list is in the map, under its file
Present(list, map) ==
    \A i \in DOMAIN list :
        list[i].kind = "Edit" =>
            /\ list[i].edit.uri \in DOMAIN map
            /\ \A j \in DOMAIN list[i].edit.edits :
                \E k \in DOMAIN map[list[i].edit.uri] :
                    map[list[i].edit.uri][k] = list[i].edit.edits[j].text_edit

\* C25: workspace_edits normalises a change-operation list to the per-file
\* map of its text edits: every operation of the list that is not an edit
\* (create, rename, delete) is logged as unsupported and skipped, and the
\* text edits of all the other entries are in the map and get applied.
C25_OperationsLoggedAndSkipped ==
    [][\A action \in CodeActions :
        \A order \in Orders(workspace_edits(action.edit).map) :
            (/\ RunCodeAction(action, order)
             /\ action.kind = "CodeAction"
             /\ ~action.edit.changes.some
             /\ action.edit.document_changes.kind = "Operations") =>
                /\ Cardinality(Warnings(last'.log))
                    = Cardinality(Unsupported(action.edit.document_changes.list))
                /\ Present(action.edit.document_changes.list,
                           workspace_edits(action.edit).map)
                /\ \A url \in DOMAIN workspace_edits(action.edit).map :
                        url_matches_path(Editor.content, url) =>
                            AllOrNothing(Doc, docs'[Editor.content], Editor.content,
                                         workspace_edits(action.edit).map[url], last')]_vars

(* ------------------ SpecLocation: resolving a location ---------------- *)

\* the line of the text that offset n lies in
LineAt(text, n) == Cardinality({i \in 1..n : text[i] = "\n"})

\* the offset at which the line of offset n starts
LineStart(text, n) ==
    IF LineAt(text, n) = 0 THEN 0
    ELSE CHOOSE i \in 1..n : text[i] = "\n" /\ \A j \in (i + 1)..n : text[j] # "\n"

RECURSIVE Units(_, _, _)
\* the UTF-16 code units of the text from offset i to offset n
Units(text, i, n) ==
    IF i >= n THEN 0 ELSE utf16(text[i + 1]) + Units(text, i + 1, n)

\* the offsets of the text that the protocol position names
At(text, position) ==
    {n \in 0..Len(text) :
        /\ LineAt(text, n) = position.line
        /\ Units(text, LineStart(text, n), n) = position.character}

\* C31: resolving a pending location (into_utf8_location) keeps its path,
\* scroll offset and history tag; a protocol position that is out of range or
\* not representable in the buffer gives the position none, and one that is
\* in the buffer gives its offset; a raw offset gives itself; no position
\* gives no position.
C31_ResolvedOrNone ==
    (call.pc = "returned" /\ call.fn = "into_utf8_location") =>
        /\ call.result.path = call.location.path
        /\ call.result.scroll_offset = call.location.scroll_offset
        /\ call.result.history = call.location.history
        /\ call.location.position.kind = "None" => call.result.position = NoPosition
        /\ call.location.position.kind = "usize"
            => call.result.position = call.location.position.offset
        /\ call.location.position.kind = "Position"
            => IF At(call.text, call.location.position.position) = {}
               THEN call.result.position = NoPosition
               ELSE call.result.position \in At(call.text, call.location.position.position)

\* a location with scroll offset and history tag, its position in the middle
\* of a character of two code units, resolved to no position
C31_InsideCharacterIsNone ==
    /\ call.pc = "returned"
    /\ call.fn = "into_utf8_location"
    /\ call.text = <<"W", "a">>
    /\ call.location = Location("b.rs", PositionAt(Position(0, 1)), "top", "jump")
    /\ call.result = Location("b.rs", NoPosition, "top", "jump")

(* ---------------- SpecRequest: the request ids only grow -------------- *)

\* C32: the request id of the completion session never decreases: it grows by
\* one with each reset of the session and is the same after a reuse of the
\* session, a cancel and a move; the request id of the hover session grows by
\* one each time update_hover starts a hover at a new anchor and is the same
\* when the anchor and the buffer are those of the live session.
C32_RequestIdsMonotonic ==
    [][/\ completion'.request_id >= completion.request_id
       /\ hover'.request_id >= hover.request_id
       /\ completion'.request_id - completion.request_id
            = history'.completion.resets - history.completion.resets
       /\ (last'.op \in {"receive_char", "GetCompletion"} /\ last'.branch = "reset")
            => completion'.request_id = completion.request_id + 1
       /\ (last'.op \in {"receive_char", "GetCompletion"} /\ last'.branch = "reuse")
            => completion'.request_id = completion.request_id
       /\ (completion.status # "Inactive" /\ completion'.status = "Inactive")
            => completion'.request_id = completion.request_id
       /\ (hover.status # "Inactive" /\ hover'.status = "Inactive")
            => hover'.request_id = hover.request_id
       /\ (RunMoveCommand("Left") \/ ListSelect(Item(<<"a">>, FALSE)))
            => /\ completion'.request_id = completion.request_id
               /\ hover'.request_id = hover.request_id
       /\ \A o \in {0, Len(Doc.text)} :
            UpdateHover(o, {})
            => IF /\ hover.status # "Inactive"
                  /\ hover.offset = prev_code_boundary(Doc.text, o)
                  /\ hover.buffer_id = Doc.id
               THEN hover' = hover
               ELSE /\ hover'.request_id = hover.request_id + 1
                    /\ hover'.offset = prev_code_boundary(Doc.text, o)
                    /\ hover'.status = "Started"
      ]_vars

\* both sessions are at their second request id, and a move has just
\* cancelled the live completion session
C32_SecondIdsKeptByMove ==
    /\ last.op = "run_move_command"
    /\ last.met.completion
    /\ completion.status = "Inactive"
    /\ completion.request_id = 2
    /\ hover.request_id = 2

(* --------------- SpecTabStop: the tab stops come to an end ------------ *)

\* C33: from any state with a live placeholder set, asking for the next tab
\* stop again and again, with no other operation in between, clears the set
\* after at most as many requests as the set has stops, also when stops have
\* the same or overlapping ranges.
C33_ClearedWithinStops ==
    (call.pc = "tabs" /\ Editor.snippet.some)
        => call.jumps < Len(Editor.snippet.tabs)

(* ------------- SpecSnippet: a remapped set keeps its stops ------------ *)

\* the placeholders of the view are those of before, each with its tab index
\* at its place in the list, none with its start after its end, and no two
\* in another order of offsets than before
SameStops(before, after) ==
    /\ Len(after) = Len(before)
    /\ \A i \in 1..Len(before) :
        /\ after[i].tab = before[i].tab
        /\ after[i].start <= after[i].end
    /\ \A i, j \in 1..Len(before) :
        /\ before[i].start <= before[j].start => after[i].start <= after[j].start
        /\ before[i].end <= before[j].end => after[i].end <= after[j].end

\* C34: remapping the placeholder set through the delta of an edit
\* (update_snippet_offset) keeps the number of the placeholders, their order
\* and their tab indices, and start <= end for each of them, whatever the
\* delta inserts or deletes; a placeholder set that exists is never empty,
\* so snippet.len() - 1 in next-tab-stop does not underflow.
C34_RemappedSetKeepsStops ==
    /\ [](\A v \in Views :
            editors[v].snippet.some
            => /\ Len(editors[v].snippet.tabs) >= 1
               /\ \A i \in 1..Len(editors[v].snippet.tabs) :
                    editors[v].snippet.tabs[i].start <= editors[v].snippet.tabs[i].end)
    /\ [][\A v \in Views :
            (editors[v].snippet.some /\ editors'[v].snippet.some)
            => SameStops(editors[v].snippet.tabs, editors'[v].snippet.tabs)]_vars

\* the default text of the first stop of foo(a, b) was deleted: the set still
\* has its two stops, the first now empty, the second moved
C34_StopEmptiedSetKept ==
    /\ last.op = "run_edit_command"
    /\ docs["a.rs"].text = <<"f", "o", "o", "(", ",", " ", "b", ")">>
    /\ editors[1].snippet.some
    /\ editors[1].snippet.tabs
        = <<[tab |-> 1, start |-> 4, end |-> 4], [tab |-> 2, start |-> 6, end |-> 7]>>

(* ------------- SpecInactive: which cursors a delta moves -------------- *)

\* C35: inactive_apply_delta changes only the cursors of the views other than
\* the acting one that show the document of the acting view: a view of another
\* document keeps its cursor, and the acting view is not remapped, though it
\* shows the document; nothing but the cursor of a view changes.
C35_OnlyOtherViewsOfDocument ==
    [][InactiveApplyDelta =>
        \A v \in Views :
            IF v # active /\ editors[v].content = editors[active].content
            THEN editors'[v] =
                    [editors[v] EXCEPT
                       !.cursor = cursor_apply_delta(@, call.delta)]
            ELSE editors'[v] = editors[v]]_vars

\* both views show a.rs with their cursors at 1; after an insertion at the top
\* the cursor of the view not acting is at 2, that of the acting view at 1
C35_ActingViewNotRemapped ==
    /\ call.pc = "returned"
    /\ call.fn = "inactive_apply_delta"
    /\ call.delta = Delta(0, 0, 1)
    /\ active = 1
    /\ editors[1].content = "a.rs" /\ editors[2].content = "a.rs"
    /\ editors[1].cursor.start = 1
    /\ editors[2].cursor.start = 2 /\ editors[2].cursor.end = 2

\* C36: after any interleaving of jump movements, backward jumps and forward
\* jumps, in the view of a file and in the view of a buffer that is no file,
\* the index of every view is between 0 and the length of its list, and a
\* jump that yields a location has read it at an index below that length.
C36_IndexWithinList ==
    /\ [](\A v \in Views :
            editors[v].current_location \in 0..Len(editors[v].locations))
    /\ [][(/\ last'.op \in {"jump_location_backward", "jump_location_forward"}
           /\ last'.sent = 1)
          => Editor'.current_location \in 0..(Len(Editor'.locations) - 1)]_vars

\* a backward jump from the head of a one-entry list has read the entry it
\* pushed behind it; the view of the scratch buffer has been moved in too
C36_BackFromHead ==
    /\ last.op = "jump_location_backward"
    /\ last.sent = 1
    /\ Editor.current_location = 0
    /\ Len(Editor.locations) = 2
    /\ editors[2].content = Scratch
    /\ editors[2].last_movement_new = "DocumentEnd"
    /\ editors[2].locations = <<>>

\* the result is an entry of the list: a path of it and a position listed
\* for that path
Listed(result, files, field) ==
    \E i \in 1..Len(files) :
        /\ files[i].path = result.path
        /\ \E j \in 1..Len(files[i][field]) : files[i][field][j] = result.at

\* C37: the pair next_in_file_diff_offset and next_in_file_errors_offset
\* return is an entry of the list given, whether or not the current path is
\* listed; and the list next_diff gives the helper is never empty and has no
\* file with an empty position list.
C37_ResultIsListed ==
    /\ Returned("next_in_file_diff_offset")
        => Listed(call.result, call.files, "offsets")
    /\ Returned("next_in_file_errors_offset")
        => Listed(call.result, call.files, "positions")
    /\ (Returned("next_diff") /\ call.helper)
        => /\ indexable(call.files)
           /\ ~call.panicked
           /\ Listed(call.result, call.files, "offsets")

\* C37, its case: next_diff ran in b.rs with two changed files, neither of
\* them b.rs and one without hunks, and jumps to offset 0 of that file
C37_FileWithoutHunks ==
    /\ Returned("next_diff")
    /\ call.helper
    /\ call.path = "b.rs"
    /\ Len(call.file_diffs) = 2
    /\ call.file_diffs[1].path = "c.rs"
    /\ call.file_diffs[1].history = ChangeHistory(<<DiffLines("Both", 0)>>)
    /\ call.file_diffs[2].path = "a.rs"
    /\ call.files[1].path = "a.rs"
    /\ call.result = Found("c.rs", 0)

\* the edit entries of a document-changes list, the other operations left out
Entries(document_changes) ==
    IF document_changes.kind = "Edits" THEN document_changes.list
    ELSE LET edits == SelectSeq(document_changes.list, LAMBDA o : o.kind = "Edit")
         IN  [i \in 1..Len(edits) |-> edits[i].edit]

RECURSIVE EditsFor(_, _)
\* the text edits the entries hold for a file, in the order of the list
EditsFor(entries, url) ==
    IF entries = <<>> THEN <<>>
    ELSE (IF Head(entries).uri = url
          THEN [j \in 1..Len(Head(entries).edits) |->
                    Head(entries).edits[j].text_edit]
          ELSE <<>>)
         \o EditsFor(Tail(entries), url)

\* C38: normalising a document-changes workspace edit loses no text edit:
\* the map holds, under each file an entry targets, the text edits of all the
\* entries of that file in the order of the list, also when two or more
\* entries target the same file.
C38_NoTextEditLost ==
    [][\A action \in CodeActions :
        \A order \in Orders(workspace_edits(action.edit).map) :
            (/\ RunCodeAction(action, order)
             /\ action.kind = "CodeAction"
             /\ ~action.edit.changes.some
             /\ action.edit.document_changes.kind # "None") =>
                \A i \in DOMAIN Entries(action.edit.document_changes) :
                    LET url == Entries(action.edit.document_changes)[i].uri
                    IN  /\ url \in DOMAIN workspace_edits(action.edit).map
                        /\ workspace_edits(action.edit).map[url]
                            = EditsFor(Entries(action.edit.document_changes), url)]_vars

\* C39: saving a pristine file buffer spawns no thread, so that no formatting
\* is requested and no save command submitted; with exit false the step
\* changes nothing and submits nothing, with exit true it submits exactly one
\* command, SplitClose for the view.
C39_PristineSaveOnlyCloses ==
    [][\A exit, format_on_save \in BOOLEAN :
        (/\ last'.op = "save"
         /\ Doc.pristine
         /\ Editor.content \in Paths
         /\ Save(exit, format_on_save)) =>
            /\ UNCHANGED <<docs, editors, active, completion, hover, inflight,
                           threads, history, call>>
            /\ last'.commands = IF exit THEN <<SplitClose(active)>> ELSE <<>>]_vars

\* C39, its case: a pristine file was saved with exit while the thread of an
\* earlier save of the other file had ended
C39_ClosedBesideEndedSave ==
    /\ last.op = "save"
    /\ last.branch = "pristine"
    /\ last.commands = <<SplitClose(2)>>
    /\ active = 2
    /\ Doc.pristine
    /\ \E t \in Threads : Ended(t) /\ threads[t].path = "a.rs"

====
